---------------------------- MODULE Spec2Model ----------------------------
(***************************************************************************)
(* Dispatch and live-tracking core of bigbite_backend.                     *)
(*                                                                         *)
(* The repository holds two versions of the socket server: server.js and   *)
(* a later one (src/unnamed/part_001).  The variable `entry` says which of *)
(* the two files is the running process; it never changes.  The REST       *)
(* routes (routes/order.js), the payment routes and the Order schema are   *)
(* shared by both.                                                         *)
(*                                                                         *)
(* Every handler is an async function.  It is modelled as one step per     *)
(* `await`: the step performs the awaited store operation and then the     *)
(* synchronous code that follows it, up to the next `await`.  Steps of     *)
(* different handlers interleave freely, as on the node event loop.        *)
(***************************************************************************)
EXTENDS Integers, Sequences, FiniteSets, TLC

VARIABLES
  entry,             \* which server file is running
  orders,            \* durable Order collection (mongoose model Order)
  payment,           \* durable Payment record of the one gateway order id
  riderStats,        \* durable riderDetails statistics of the rider users
  users,             \* durable role and riderDetails.currentLocation of the users
  today,             \* the calendar day of the server clock
  activeOrdersPool,  \* Map orderId -> order projection
  activeRidersPool,  \* Map riderId -> rider record
  sockets,           \* socket.io connections and their socket.riderId
  expired,           \* order's createdAt is more than ten minutes ago
  handlers,          \* in-flight handler invocations (locals and position)
  sweeper,           \* the setInterval auto-reject callback
  events,            \* what has been published, per topic
  held,              \* history: the activeOrders a rider's record had when the
                     \* rider's socket disconnected
  ops,               \* order and rider handler invocations started so far
  verifies,          \* payment verifications started so far
  chatbotRoutes,     \* which file of the chatbot router is mounted
  GEMINI_API_KEYS,   \* the configured keys, after filter(Boolean)
  currentKeyIndex,   \* module-level index of the key in use
  requests           \* in-flight chatbot requests (locals and position)

\* the chatbot router's state
chatbot == <<chatbotRoutes, GEMINI_API_KEYS, currentKeyIndex, requests>>

\* everything the chatbot router never touches
store == <<orders, payment, riderStats, users, today, activeOrdersPool, activeRidersPool,
           sockets, expired, handlers, sweeper, events, held, ops, verifies>>

vars == <<entry, chatbot, orders, payment, riderStats, users, today, activeOrdersPool, activeRidersPool,
          sockets, expired, handlers, sweeper, events, held, ops, verifies>>

(***************************************************************************)
(* Bounds of the model.                                                    *)
(***************************************************************************)
MaxOps == 5
MaxInflight == 2

\* the number of payment verifications of one run
MaxVerifies == 2
MaxKeys == 2

\* chatbot requests in flight at once
Requests == {"q1", "q2"}

OrderIds == <<"o1", "o2">>
Orders == {OrderIds[i] : i \in 1..Len(OrderIds)}
Riders == {"r1", "r2"}
Customer == "c1"
Restaurant == "k1"
UserIds == Riders \cup {Customer}
Sockets == {"s1", "s2"}
Slots == 1..MaxInflight

None == "none"

(***************************************************************************)
(* The stored users: the role and the rider's stored position are read     *)
(* from the user document, which PUT /api/auth/update-profile rewrites.    *)
(***************************************************************************)
\* every stored user taken for a rider
AnyRole(u) == "rider"

Role(u) == IF u \in UserIds THEN users[u].role ELSE "restaurant"

\* Positions lie on one great circle through the restaurant.  A latitude is
\* the place of a point on it, in metres of arc (the angle times the 6371 km
\* of calculateDistance), so that a rider can stand one metre inside the
\* radius, exactly at it, and one metre outside.  The doubles of the code
\* have such points: calculateDistance(20.5886, 77.0, 28.965976810289632,
\* 80.6077) is 1000.
Undefined == -1
\* the payload carries no coordinates object at all
Missing == -2
RestaurantLat == 2000000
CustomerLat == 2005003
NearLat == 2111195
FarLat == 3111950
PayloadLatitudes == {Missing, Undefined, NearLat, FarLat}

\* rider.riderDetails.currentLocation.latitude of the stored user
StoredLatitude(u) == users[u].currentLocation

\* the users as registered: the riders and the customer, one rider with a
\* stored position
Registered(u) ==
  [role |-> IF u \in Riders THEN "rider" ELSE "customer",
   currentLocation |-> IF u = "r1" THEN NearLat ELSE Undefined]

\* !x for a latitude: undefined and 0 are falsy
Falsy(lat) == lat = Undefined \/ lat = Missing \/ lat = 0

(***************************************************************************)
(* orderSchema: status enum, and the default status of a new document.     *)
(***************************************************************************)
StatusEnum == {"pending", "accepted", "rejected", "auto_rejected",
               "rider_assigned", "preparing", "ready", "picked_up",
               "on_the_way", "delivered", "cancelled"}

\* statuses a client may put in a payload: the schema's, and the two the
\* handlers use that the schema does not list
PayloadStatuses == StatusEnum \cup {"awaiting_rider", "pending_payment"}

\* mongoose validation of the status path on save
ValidStatus(s) == s \in StatusEnum

\* the status in which the running server lets riders claim an order
OpenStatus == IF entry = "part_001" THEN "awaiting_rider" ELSE "accepted"

\* PATCH /:id/status validStatuses
validStatuses == {"preparing", "ready", "picked_up", "on_the_way",
                  "delivered", "cancelled"}

Abs(x) == IF x < 0 THEN 0 - x ELSE x

\* Haversine distance of two points of the great circle, in metres: R * c,
\* where c is the angle between them, is the arc from the one to the other
calculateDistance(lat1, lat2) == Abs(lat2 - lat1)

MAX_DISTANCE_KM == 1000

\* distance < MAX_DISTANCE_KM: a rider exactly at the radius is left out
WithinOpenRange(lat1, lat2) ==
  /\ lat1 # Undefined
  /\ lat2 # Undefined
  /\ calculateDistance(lat1, lat2) < MAX_DISTANCE_KM * 1000

\* distance <= MAX_DISTANCE_KM; a comparison with NaN is false
WithinRange(lat1, lat2) ==
  /\ lat1 # Undefined
  /\ lat2 # Undefined
  /\ calculateDistance(lat1, lat2) <= MAX_DISTANCE_KM * 1000

\* order.deliveryFee > 0 ? order.deliveryFee : Math.round(distanceToCustomer * 8)
riderEarnings(deliveryFee, metres) ==
  IF deliveryFee > 0 THEN deliveryFee ELSE (metres * 8 + 500) \div 1000

DeliveryFees == {0, 30}

(***************************************************************************)
(* Records.                                                                *)
(***************************************************************************)
NoOrder == [status |-> None, rider |-> None, riderEarnings |-> 0,
            deliveryFee |-> 0, paymentMethod |-> None,
            riderLocation |-> Undefined]

NoProjection == [present |-> FALSE, status |-> None, riderId |-> None,
                 riderCoordinates |-> Undefined]

NoRiderData == [present |-> FALSE, socketId |-> None,
                coordinates |-> Undefined, activeOrders |-> <<>>]

NoStats == [totalDeliveries |-> 0, totalEarnings |-> 0, todayEarnings |-> 0,
            lastEarningsReset |-> 0]

NewSocket == [state |-> "new", riderId |-> None]

\* a handler slot: the operation, the await it is waiting on, its payload
\* (o, u, st), the order document it loaded (doc: the fields as read, set:
\* the fields as assigned), and the rider record object it holds (ref)
Idle == [op |-> "idle", pc |-> "idle", o |-> None, u |-> None, st |-> None,
         sock |-> None,
         docStatus |-> None, docRider |-> None, docFee |-> 0, docEarnings |-> 0,
         setStatus |-> None, setRider |-> None, setEarnings |-> 0,
         ref |-> None, copy |-> NoRiderData, ids |-> {}, lat |-> Undefined,
         docStats |-> NoStats, setStats |-> NoStats, today |-> Undefined]

\* a run of the setInterval callback: the orders its query returned that
\* are still to be processed
SweepIds == <<"w1", "w2">>
Sweeps == {SweepIds[i] : i \in 1..Len(SweepIds)}
IdleSweeper == [pc |-> "idle", todo |-> <<>>, tenMinutesAgo |-> {}]

NoEvents == [once |-> {}, twice |-> {}]

\* io.to(topic).emit(name, {orderId, status})
Ev(topic, id, name, o, st) ==
  [topic |-> topic, id |-> id, name |-> name, o |-> o, st |-> st]

Emit(evs, e) ==
  IF e \in evs.once THEN [evs EXCEPT !.twice = @ \cup {e}]
  ELSE [evs EXCEPT !.once = @ \cup {e}]

RECURSIVE EmitAll(_, _)
EmitAll(evs, es) ==
  IF es = <<>> THEN evs ELSE EmitAll(Emit(evs, Head(es)), Tail(es))

\* the events of a set, in some order (each at most once)
RECURSIVE SetToSeq(_)
SetToSeq(S) ==
  IF S = {} THEN <<>>
  ELSE LET x == CHOOSE y \in S : TRUE IN <<x>> \o SetToSeq(S \ {x})

RECURSIVE Filter(_, _)
Filter(seq, x) ==
  IF seq = <<>> THEN <<>>
  ELSE IF Head(seq) = x THEN Filter(Tail(seq), x)
  ELSE <<Head(seq)>> \o Filter(Tail(seq), x)

SeqToSet(seq) == {seq[i] : i \in 1..Len(seq)}

(***************************************************************************)
(* Initial state: the process has just started, the stores are empty.      *)
(***************************************************************************)
InitStore ==
  /\ entry \in {"part_001", "server"}
  /\ orders = [o \in Orders |-> NoOrder]
  /\ payment = None
  /\ riderStats = [r \in UserIds |-> NoStats]
  /\ users = [u \in UserIds |-> Registered(u)]
  /\ today = 0
  /\ activeOrdersPool = [o \in Orders |-> NoProjection]
  /\ activeRidersPool = [r \in UserIds |-> NoRiderData]
  /\ sockets = [s \in Sockets |-> NewSocket]
  /\ expired = [o \in Orders |-> FALSE]
  /\ handlers = [h \in Slots |-> Idle]
  /\ sweeper = [w \in Sweeps |-> IdleSweeper]
  /\ events = NoEvents
  /\ held = [r \in UserIds |-> <<>>]
  /\ ops = 0
  /\ verifies = 0

\* a chatbot request that has not arrived
NoRequest ==
  [route |-> None, pc |-> "idle", attempts |-> 0, calls |-> 0,
   responses |-> 0, status |-> None, response |-> None]

\* GEMINI_API_KEYS = [env.GEMINI_API_KEY, env.GEMINI_API_KEY_2].filter(Boolean)
\* with n of the variables set; let currentKeyIndex = 0
Configured(n) ==
  /\ GEMINI_API_KEYS = [i \in 1..n |-> "key"]
  /\ currentKeyIndex = 0
  /\ requests = [q \in Requests |-> NoRequest]

Init ==
  /\ InitStore
  /\ chatbotRoutes = "part_002"
  /\ Configured(MaxKeys)

(***************************************************************************)
(* Handler slots.                                                          *)
(***************************************************************************)
\* a new invocation takes the first idle slot
OpenSlot(h) ==
  /\ handlers[h].op = "idle"
  /\ \A g \in Slots : g < h => handlers[g].op # "idle"

\* the order and rider requests of one run are counted and capped; the
\* payment verifications are counted apart
FreeSlot(h) ==
  /\ ops < MaxOps
  /\ OpenSlot(h)

At(h, op, pc) == handlers[h].op = op /\ handlers[h].pc = pc

Begin(h, op, pc, o, u) ==
  [Idle EXCEPT !.op = op, !.pc = pc, !.o = o, !.u = u]

SocketOpen(s) == sockets[s].state = "open"
AnySocketOpen == \E s \in Sockets : SocketOpen(s)

(***************************************************************************)
(* Rider record objects held across an await.  A handler that read         *)
(* activeRidersPool.get(riderId) holds the object itself (ref = "live").   *)
(* When the Map entry is replaced or deleted the handler keeps the old     *)
(* object (ref = "stale", copy = its fields); when rider_join_pool builds  *)
(* the new record around the old activeOrders array, the old object still  *)
(* shares that array with the Map entry (ref = "shared").                  *)
(***************************************************************************)
\* the Map entry of rider r is replaced by an object with another array
Detach(hs, r) ==
  [h \in Slots |->
     IF hs[h].u = r /\ hs[h].ref = "live"
       THEN [hs[h] EXCEPT !.ref = "stale", !.copy = activeRidersPool[r]]
     ELSE IF hs[h].u = r /\ hs[h].ref = "shared"
       THEN [hs[h] EXCEPT !.ref = "stale",
               !.copy.activeOrders = activeRidersPool[r].activeOrders]
     ELSE hs[h]]

\* the Map entry of rider r is replaced by an object with the same array
DetachShared(hs, r) ==
  [h \in Slots |->
     IF hs[h].u = r /\ hs[h].ref = "live"
       THEN [hs[h] EXCEPT !.ref = "shared", !.copy = activeRidersPool[r]]
     ELSE hs[h]]

(***************************************************************************)
(* Connections.                                                            *)
(***************************************************************************)
\* io.on('connection')
connection(s) ==
  /\ sockets[s].state = "new"
  /\ sockets' = [sockets EXCEPT ![s].state = "open"]
  /\ UNCHANGED <<entry, chatbot, users, verifies, held, riderStats, today, orders, payment, activeOrdersPool, activeRidersPool,
                 expired, handlers, sweeper, events, ops>>

\* socket.on('rider_authenticate')
rider_authenticate(s, u) ==
  /\ SocketOpen(s)
  /\ ops < MaxOps
  /\ sockets[s].riderId # u
  /\ sockets' = [sockets EXCEPT ![s].riderId = u]
  /\ ops' = ops + 1
  /\ UNCHANGED <<entry, chatbot, users, verifies, held, riderStats, today, orders, payment, activeOrdersPool, activeRidersPool,
                 expired, handlers, sweeper, events>>

\* socket.on('disconnect'): if (socket.riderId) the record of that id is
\* deleted; an id that is no key of the Map has no record to delete
disconnect(s) ==
  /\ SocketOpen(s)
  /\ sockets' = [sockets EXCEPT ![s].state = "closed"]
  /\ IF sockets[s].riderId \in UserIds
       THEN /\ activeRidersPool' =
                 [activeRidersPool EXCEPT ![sockets[s].riderId] = NoRiderData]
            /\ handlers' = Detach(handlers, sockets[s].riderId)
            /\ held' = [held EXCEPT ![sockets[s].riderId] =
                           activeRidersPool[sockets[s].riderId].activeOrders]
       ELSE UNCHANGED <<activeRidersPool, handlers, held>>
  /\ UNCHANGED <<entry, chatbot, users, verifies, riderStats, today, orders, payment, activeOrdersPool, expired, sweeper,
                 events, ops>>

\* a leave that also hands the rider's orders back
rider_leave_pool_releasing(s, u) ==
  /\ SocketOpen(s)
  /\ ops < MaxOps
  /\ u \in UserIds
  /\ activeRidersPool' = [activeRidersPool EXCEPT ![u] = NoRiderData]
  /\ orders' = [o \in Orders |->
        IF orders[o].rider = u THEN [orders[o] EXCEPT !.rider = None]
        ELSE orders[o]]
  /\ handlers' = Detach(handlers, u)
  /\ events' = Emit(events, Ev("socket", u, "left_pool", None, None))
  /\ ops' = ops + 1
  /\ UNCHANGED <<entry, chatbot, users, verifies, held, riderStats, today, payment, activeOrdersPool, sockets, expired,
                 sweeper>>

\* socket.on('rider_leave_pool')
rider_leave_pool(s, u) ==
  /\ SocketOpen(s)
  /\ ops < MaxOps
  /\ u \in UserIds
  /\ activeRidersPool' = [activeRidersPool EXCEPT ![u] = NoRiderData]
  /\ handlers' = Detach(handlers, u)
  /\ events' = Emit(events, Ev("socket", u, "left_pool", None, None))
  /\ ops' = ops + 1
  /\ UNCHANGED <<entry, chatbot, users, verifies, held, riderStats, today, orders, payment, activeOrdersPool, sockets, expired,
                 sweeper>>

(***************************************************************************)
(* socket.on('rider_join_pool')                                            *)
(***************************************************************************)
rider_join_pool_start(h, s, u, lat) ==
  /\ FreeSlot(h)
  /\ SocketOpen(s)
  /\ handlers' = [handlers EXCEPT ![h] =
        [Begin(h, "rider_join_pool", "findRider", None, u)
           EXCEPT !.sock = s, !.lat = lat]]
  /\ ops' = ops + 1
  /\ UNCHANGED <<entry, chatbot, users, verifies, held, riderStats, today, orders, payment, activeOrdersPool, activeRidersPool,
                 sockets, expired, sweeper, events>>

\* the coordinates the record gets, or Missing when the join is refused
JoinCoords(u, lat) ==
  IF entry = "part_001"
    THEN LET c == IF Falsy(lat) THEN StoredLatitude(u) ELSE lat
         IN IF Falsy(c) THEN Missing ELSE c
    ELSE IF lat = Missing
           THEN (IF Falsy(StoredLatitude(u)) THEN 0 ELSE StoredLatitude(u))
           ELSE lat

\* notifyRiderOfAvailableOrders: the projections that are awaiting a rider
\* and younger than ten minutes
availableOrderIds ==
  {o \in Orders : /\ activeOrdersPool[o].present
                  /\ activeOrdersPool[o].status = "awaiting_rider"
                  /\ ~expired[o]}

\* await User.findById(riderId), then everything up to the Order.find of
\* notifyRiderOfAvailableOrders
rider_join_pool_findRider(h) ==
  /\ At(h, "rider_join_pool", "findRider")
  /\ LET u == handlers[h].u
         s == handlers[h].sock
         c == JoinCoords(u, handlers[h].lat)
         old == activeRidersPool[u]
     IN
     IF Role(u) # "rider"
       THEN /\ events' = Emit(events, Ev("socket", u, "error", None, "Invalid rider"))
            /\ handlers' = [handlers EXCEPT ![h] = Idle]
            /\ UNCHANGED <<activeRidersPool, sockets>>
     ELSE IF c = Missing
       THEN /\ events' = Emit(events, Ev("socket", u, "error", None, "Location required"))
            /\ handlers' = [handlers EXCEPT ![h] = Idle]
            /\ UNCHANGED <<activeRidersPool, sockets>>
     ELSE
       /\ activeRidersPool' = [activeRidersPool EXCEPT ![u] =
             [present |-> TRUE, socketId |-> s, coordinates |-> c,
              activeOrders |-> IF entry = "part_001" /\ old.present
                                 THEN old.activeOrders ELSE <<>>]]
       /\ sockets' = [sockets EXCEPT ![s].riderId = u]
       /\ events' = Emit(events, Ev("socket", u, "joined_pool", None, None))
       /\ LET hs == IF entry = "part_001" /\ old.present
                      THEN DetachShared(handlers, u) ELSE Detach(handlers, u)
          IN IF entry = "part_001" /\ availableOrderIds # {}
               THEN handlers' = [hs EXCEPT ![h].pc = "findOrders",
                                           ![h].lat = c,
                                           ![h].ids = availableOrderIds]
               ELSE handlers' = [hs EXCEPT ![h] = Idle]
  /\ UNCHANGED <<entry, chatbot, users, verifies, held, riderStats, today, orders, payment, activeOrdersPool, expired, sweeper, ops>>

\* io.to(`rider_${riderId}`).emit('new_order_available', {orderId, ...,
\* riderEarnings, ...}) for an order of the given delivery fee
AvailableNotice(r, o, fee) ==
  Ev("rider", r, "new_order_available", o,
     ToString(riderEarnings(fee, calculateDistance(RestaurantLat, CustomerLat))))

\* notifyRiderOfAvailableOrders: await Order.find(...) and the notices
rider_join_pool_findOrders(h) ==
  /\ At(h, "rider_join_pool", "findOrders")
  /\ LET u == handlers[h].u
         near == {o \in handlers[h].ids :
                    WithinRange(handlers[h].lat, RestaurantLat)}
     IN events' = EmitAll(events,
          SetToSeq({AvailableNotice(u, o, orders[o].deliveryFee) : o \in near}))
  /\ handlers' = [handlers EXCEPT ![h] = Idle]
  /\ UNCHANGED <<entry, chatbot, users, verifies, held, riderStats, today, orders, payment, activeOrdersPool, activeRidersPool,
                 sockets, expired, sweeper, ops>>

(***************************************************************************)
(* socket.on('rider_location_update')                                      *)
(***************************************************************************)
\* io.to(`order_${orderId}`).emit('rider_location_live', {orderId, latitude})
LocationEvent(o, lat) ==
  Ev("order", o, "rider_location_live", o, ToString(lat))

\* one rider_location_live per element of the list the forEach runs over
LocationEvents(list, lat) ==
  [i \in 1..Len(list) |-> LocationEvent(list[i], lat)]

\* the projections after the forEach over the orders ids
WithRiderCoordinates(ids, lat) ==
  [o \in Orders |->
     IF o \in ids /\ activeOrdersPool[o].present
       THEN [activeOrdersPool[o] EXCEPT !.riderCoordinates = lat]
       ELSE activeOrdersPool[o]]

\* the first order of the list that has a projection, as a set
FirstTracked(seq) ==
  {seq[i] : i \in {j \in 1..Len(seq) :
                    /\ activeOrdersPool[seq[j]].present
                    /\ \A k \in 1..(j - 1) : ~activeOrdersPool[seq[k]].present}}

\* a record without the guard of the lookup
RiderAssumed(u) == TRUE

\* const riderData = activeRidersPool.get(riderId); if (riderData) ...
RiderFound(u) == activeRidersPool[u].present

\* console.log(`Rider not found in activeRidersPool`) of part_001
RiderNotFound(u) ==
  Ev("log", u, "console.log", None, "Rider not found in activeRidersPool")

\* the handler up to its first await.  server.js has none: it broadcasts on
\* the orders of the record that have a projection.  part_001 awaits
\* Order.updateMany when the record has orders, and else is done.  A payload
\* without coordinates makes `coordinates.latitude` throw: in part_001 in
\* the first log line, in server.js in the first emit, after the record and
\* the projection of that order were assigned.
rider_location_update(h, u, lat) ==
  /\ AnySocketOpen
  /\ handlers[h].op = "idle"
  /\ \A g \in Slots : g < h => handlers[g].op # "idle"
  /\ u \in UserIds
  /\ activeRidersPool' =
       IF (entry = "part_001" /\ lat = Missing) \/ ~RiderFound(u)
         THEN activeRidersPool
         ELSE [activeRidersPool EXCEPT ![u].coordinates = lat]
  /\ LET ids == SeqToSet(activeRidersPool[u].activeOrders) IN
     IF ~RiderFound(u)
       THEN /\ events' = IF entry = "part_001" /\ lat # Missing
                           THEN Emit(events, RiderNotFound(u))
                           ELSE events
            /\ UNCHANGED <<activeOrdersPool, handlers>>
     ELSE IF lat = Missing
       THEN /\ activeOrdersPool' =
                 IF entry = "part_001" THEN activeOrdersPool
                 ELSE WithRiderCoordinates(
                        FirstTracked(activeRidersPool[u].activeOrders), lat)
            /\ UNCHANGED <<handlers, events>>
     ELSE IF entry = "part_001"
       THEN /\ handlers' =
                 IF ids = {} THEN handlers
                 ELSE [handlers EXCEPT ![h] =
                         [Begin(h, "rider_location_update", "updateMany", None, u)
                            EXCEPT !.lat = lat, !.ids = ids, !.ref = "live"]]
            /\ UNCHANGED <<activeOrdersPool, events>>
       ELSE /\ activeOrdersPool' = WithRiderCoordinates(ids, lat)
            /\ events' = EmitAll(events,
                  LocationEvents(SelectSeq(activeRidersPool[u].activeOrders,
                                           LAMBDA x : activeOrdersPool[x].present),
                                 lat))
            /\ UNCHANGED handlers
  /\ UNCHANGED <<entry, chatbot, users, verifies, held, riderStats, today, orders, payment, sockets, expired,
                 sweeper, ops>>

\* the orders of the record the handler holds
HeldActiveOrders(hr) ==
  IF hr.ref \in {"live", "shared"} THEN activeRidersPool[hr.u].activeOrders
  ELSE hr.copy.activeOrders

\* await Order.updateMany({_id: {$in: ids}}, {$set: riderLocation}), then the
\* broadcast on every order of the record
rider_location_update_updateMany(h) ==
  /\ At(h, "rider_location_update", "updateMany")
  /\ LET hr == handlers[h]
         now == SeqToSet(HeldActiveOrders(hr))
     IN
     /\ orders' = [o \in Orders |->
           IF o \in hr.ids /\ orders[o].status # None
             THEN [orders[o] EXCEPT !.riderLocation = hr.lat]
             ELSE orders[o]]
     /\ activeOrdersPool' = WithRiderCoordinates(now, hr.lat)
     /\ events' = EmitAll(events, LocationEvents(HeldActiveOrders(hr), hr.lat))
  /\ handlers' = [handlers EXCEPT ![h] = Idle]
  /\ UNCHANGED <<entry, chatbot, users, verifies, held, riderStats, today, payment, activeRidersPool, sockets,
                 expired, sweeper, ops>>

(***************************************************************************)
(* router.patch('/:id/rider-location'): any caller sets the location of an *)
(* order                                                                   *)
(***************************************************************************)
patch_rider_location_start(h, o, lat) ==
  /\ FreeSlot(h)
  /\ handlers' = [handlers EXCEPT ![h] =
        [Begin(h, "patch_rider_location", "findOrder", o, None) EXCEPT !.lat = lat]]
  /\ ops' = ops + 1
  /\ UNCHANGED <<entry, chatbot, users, verifies, held, riderStats, today, orders, payment, activeOrdersPool, activeRidersPool,
                 sockets, expired, sweeper, events>>

\* await Order.findById(orderId); order.riderLocation = {latitude, ...}
patch_rider_location_findOrder(h) ==
  /\ At(h, "patch_rider_location", "findOrder")
  /\ IF orders[handlers[h].o].status = None
       THEN /\ handlers' = [handlers EXCEPT ![h] = Idle]
            /\ events' = Emit(events, Ev("http", None, "patch_rider_location",
                                         handlers[h].o, "404"))
       ELSE /\ handlers' = [handlers EXCEPT ![h].pc = "save"]
            /\ UNCHANGED events
  /\ UNCHANGED <<entry, chatbot, users, verifies, held, riderStats, today, orders, payment, activeOrdersPool, activeRidersPool,
                 sockets, expired, sweeper, ops>>

\* await order.save(), then the broadcast on the order's room and the answer
patch_rider_location_save(h) ==
  /\ At(h, "patch_rider_location", "save")
  /\ LET o == handlers[h].o IN
     /\ orders' = [orders EXCEPT ![o].riderLocation = handlers[h].lat]
     /\ events' = EmitAll(events,
           << Ev("order", o, "rider_location", o, ToString(handlers[h].lat)),
              Ev("http", None, "patch_rider_location", o, "200") >>)
  /\ handlers' = [handlers EXCEPT ![h] = Idle]
  /\ UNCHANGED <<entry, chatbot, users, verifies, held, riderStats, today, payment, activeOrdersPool, activeRidersPool, sockets,
                 expired, sweeper, ops>>

(***************************************************************************)
(* Payment routes (create-order, verify): the Payment record of the one    *)
(* gateway order id.  The model follows the one create-order request that  *)
(* gets this id from the gateway; verify requests name it.                 *)
(***************************************************************************)
\* router.post('/create-order') up to await razorpay.orders.create(options)
payment_create_order_start(h) ==
  /\ OpenSlot(h)
  /\ payment = None
  /\ \A g \in Slots : handlers[g].op # "create-order"
  /\ handlers' = [handlers EXCEPT ![h] =
        Begin(h, "create-order", "create", None, Customer)]
  /\ UNCHANGED <<entry, chatbot, users, verifies, held, riderStats, today, orders, payment, activeOrdersPool, activeRidersPool,
                 sockets, expired, sweeper, events, ops>>

\* the gateway answers with the order id; new Payment({status: 'CREATED'})
payment_create_order_create(h) ==
  /\ At(h, "create-order", "create")
  /\ handlers' = [handlers EXCEPT ![h].pc = "save", ![h].setStatus = "CREATED"]
  /\ UNCHANGED <<entry, chatbot, users, verifies, held, riderStats, today, orders, payment, activeOrdersPool, activeRidersPool,
                 sockets, expired, sweeper, events, ops>>

\* await payment.save(), then res.status(200)
payment_create_order_save(h) ==
  /\ At(h, "create-order", "save")
  /\ payment' = handlers[h].setStatus
  /\ events' = Emit(events, Ev("http", Customer, "create-order", None, "200"))
  /\ handlers' = [handlers EXCEPT ![h] = Idle]
  /\ UNCHANGED <<entry, chatbot, users, verifies, held, riderStats, today, orders, activeOrdersPool, activeRidersPool, sockets,
                 expired, sweeper, ops>>

\* router.post('/verify') up to await Payment.findOne({ razorpay_order_id })
payment_verify_start(h, signatureMatches) ==
  /\ OpenSlot(h)
  /\ verifies < MaxVerifies
  /\ verifies' = verifies + 1
  /\ handlers' = [handlers EXCEPT ![h] =
        [Begin(h, "verify", "findPayment", None, Customer)
           EXCEPT !.st = IF signatureMatches THEN "match" ELSE "mismatch"]]
  /\ UNCHANGED <<entry, chatbot, users, held, riderStats, today, orders, payment, activeOrdersPool, activeRidersPool,
                 sockets, expired, sweeper, events, ops>>

\* the record is found or not; the signature is compared and the status
\* assigned on the document that was loaded
payment_verify_findPayment(h) ==
  /\ At(h, "verify", "findPayment")
  /\ IF payment = None
       THEN /\ handlers' = [handlers EXCEPT ![h] = Idle]
            /\ events' = Emit(events, Ev("http", Customer, "verify", None, "404"))
       ELSE /\ handlers' = [handlers EXCEPT
                 ![h].pc = "save",
                 ![h].docStatus = payment,
                 ![h].setStatus = IF handlers[h].st = "match" THEN "SUCCESS"
                                  ELSE "FAILED"]
            /\ UNCHANGED events
  /\ UNCHANGED <<entry, chatbot, users, verifies, held, riderStats, today, orders, payment, activeOrdersPool, activeRidersPool,
                 sockets, expired, sweeper, ops>>

\* await payment.save() writes the status when it differs from the loaded
\* one; then res.status(200) or res.status(400)
payment_verify_save(h) ==
  /\ At(h, "verify", "save")
  /\ payment' = IF handlers[h].setStatus # handlers[h].docStatus
                  THEN handlers[h].setStatus ELSE payment
  /\ events' = Emit(events, Ev("http", Customer, "verify", None,
                               IF handlers[h].st = "match" THEN "200" ELSE "400"))
  /\ handlers' = [handlers EXCEPT ![h] = Idle]
  /\ UNCHANGED <<entry, chatbot, users, verifies, held, riderStats, today, orders, activeOrdersPool, activeRidersPool, sockets,
                 expired, sweeper, ops>>

(***************************************************************************)
(* Durable writes.  order.save() validates the document and writes the     *)
(* paths whose assigned value differs from the value that was loaded.      *)
(***************************************************************************)
\* the status path after a save of handler record hr on order record ord
SavedStatus(ord, hr) ==
  IF hr.setStatus # hr.docStatus THEN hr.setStatus ELSE ord.status

SavedRider(ord, hr) ==
  IF hr.setRider # hr.docRider THEN hr.setRider ELSE ord.rider

\* the next _id: the first order id not yet in the collection
NewOrderId ==
  LET i == CHOOSE j \in 1..Len(OrderIds) :
             /\ orders[OrderIds[j]].status = None
             /\ \A k \in 1..(j - 1) : orders[OrderIds[k]].status # None
  IN OrderIds[i]

CanCreate ==
  Cardinality({o \in Orders : orders[o].status = None}) >
  Cardinality({h \in Slots : handlers[h].op \in {"place", "pending"}})

(***************************************************************************)
(* router.post('/pending'): the order document before online payment       *)
(***************************************************************************)
pending_start(h) ==
  /\ FreeSlot(h)
  /\ CanCreate
  /\ handlers' = [handlers EXCEPT ![h] =
        [Begin(h, "pending", "findRestaurant", None, Customer)
           EXCEPT !.setStatus = "pending_payment"]]
  /\ ops' = ops + 1
  /\ UNCHANGED <<entry, chatbot, users, verifies, held, riderStats, today, orders, payment, activeOrdersPool, activeRidersPool,
                 sockets, expired, sweeper, events>>

pending_findRestaurant(h) ==
  /\ At(h, "pending", "findRestaurant")
  /\ handlers' = [handlers EXCEPT ![h].pc = "save"]
  /\ UNCHANGED <<entry, chatbot, users, verifies, held, riderStats, today, orders, payment, activeOrdersPool, activeRidersPool,
                 sockets, expired, sweeper, events, ops>>

pending_save(h) ==
  /\ At(h, "pending", "save")
  /\ IF ValidStatus(handlers[h].setStatus)
       THEN /\ orders' = [orders EXCEPT ![NewOrderId] =
                  [NoOrder EXCEPT !.status = handlers[h].setStatus,
                                  !.paymentMethod = "online"]]
            /\ events' = Emit(events, Ev("http", Customer, "pending", NewOrderId, "201"))
       ELSE /\ events' = Emit(events, Ev("http", Customer, "pending", None, "500"))
            /\ UNCHANGED orders
  /\ handlers' = [handlers EXCEPT ![h] = Idle]
  /\ UNCHANGED <<entry, chatbot, users, verifies, held, riderStats, today, payment, activeOrdersPool, activeRidersPool, sockets,
                 expired, sweeper, ops>>

(***************************************************************************)
(* router.post('/'): place an order                                        *)
(***************************************************************************)
place_start(h, paymentMethod, fee) ==
  /\ FreeSlot(h)
  /\ CanCreate
  /\ handlers' = [handlers EXCEPT ![h] =
        [Begin(h, "place", IF paymentMethod = "online" THEN "findPayment"
                           ELSE "findRestaurant", None, Customer)
           EXCEPT !.st = paymentMethod, !.docFee = fee]]
  /\ ops' = ops + 1
  /\ UNCHANGED <<entry, chatbot, users, verifies, held, riderStats, today, orders, payment, activeOrdersPool, activeRidersPool,
                 sockets, expired, sweeper, events>>

\* payment && payment.status === 'SUCCESS'
PaymentSucceeded == payment = "SUCCESS"

\* await Payment.findOne({ razorpay_order_id })
place_findPayment(h) ==
  /\ At(h, "place", "findPayment")
  /\ IF PaymentSucceeded
       THEN /\ handlers' = [handlers EXCEPT ![h].pc = "findRestaurant"]
            /\ UNCHANGED events
       ELSE /\ handlers' = [handlers EXCEPT ![h] = Idle]
            /\ events' = Emit(events, Ev("http", Customer, "place", None, "400"))
  /\ UNCHANGED <<entry, chatbot, users, verifies, held, riderStats, today, orders, payment, activeOrdersPool, activeRidersPool,
                 sockets, expired, sweeper, ops>>

\* await User.findById(restaurantId); for an online order the second
\* Payment.findOne follows
place_findRestaurant(h) ==
  /\ At(h, "place", "findRestaurant")
  /\ handlers' = [handlers EXCEPT ![h].pc =
        IF handlers[h].st = "online" THEN "findPayment2" ELSE "save"]
  /\ UNCHANGED <<entry, chatbot, users, verifies, held, riderStats, today, orders, payment, activeOrdersPool, activeRidersPool,
                 sockets, expired, sweeper, events, ops>>

place_findPayment2(h) ==
  /\ At(h, "place", "findPayment2")
  /\ handlers' = [handlers EXCEPT ![h].pc = "save"]
  /\ UNCHANGED <<entry, chatbot, users, verifies, held, riderStats, today, orders, payment, activeOrdersPool, activeRidersPool,
                 sockets, expired, sweeper, events, ops>>

\* await order.save(): the document gets the schema's default status
place_save(h) ==
  /\ At(h, "place", "save")
  /\ orders' = [orders EXCEPT ![NewOrderId] =
        [NoOrder EXCEPT !.status = "pending",
                        !.deliveryFee = handlers[h].docFee,
                        !.paymentMethod = handlers[h].st]]
  /\ handlers' = [handlers EXCEPT ![h].pc = "populate", ![h].o = NewOrderId]
  /\ UNCHANGED <<entry, chatbot, users, verifies, held, riderStats, today, payment, activeOrdersPool, activeRidersPool, sockets,
                 expired, sweeper, events, ops>>

\* await order.populate(...), then the projection and the notices
place_populate(h) ==
  /\ At(h, "place", "populate")
  /\ LET o == handlers[h].o IN
     /\ activeOrdersPool' = [activeOrdersPool EXCEPT ![o] =
           [present |-> TRUE, status |-> "pending", riderId |-> None,
            riderCoordinates |-> Undefined]]
     /\ events' = EmitAll(events,
           << Ev("restaurant", Restaurant, "new_order_received", o, "pending"),
              Ev("order", o, "order_placed", o, "pending"),
              Ev("http", Customer, "place", o, "201") >>)
  /\ handlers' = [handlers EXCEPT ![h] = Idle]
  /\ UNCHANGED <<entry, chatbot, users, verifies, held, riderStats, today, orders, payment, activeRidersPool, sockets, expired,
                 sweeper, ops>>

(***************************************************************************)
(* router.post('/:orderId/confirm'): confirm after online payment          *)
(***************************************************************************)
confirm_start(h, o) ==
  /\ FreeSlot(h)
  /\ handlers' = [handlers EXCEPT ![h] =
        Begin(h, "confirm", "findOrder", o, Customer)]
  /\ ops' = ops + 1
  /\ UNCHANGED <<entry, chatbot, users, verifies, held, riderStats, today, orders, payment, activeOrdersPool, activeRidersPool,
                 sockets, expired, sweeper, events>>

confirm_findOrder(h) ==
  /\ At(h, "confirm", "findOrder")
  /\ LET o == handlers[h].o IN
     IF orders[o].status = None
       THEN /\ handlers' = [handlers EXCEPT ![h] = Idle]
            /\ events' = Emit(events, Ev("http", Customer, "confirm", o, "404"))
       ELSE /\ handlers' = [handlers EXCEPT ![h].pc = "findPayment",
                                            ![h].docStatus = orders[o].status,
                                            ![h].docRider = orders[o].rider]
            /\ UNCHANGED events
  /\ UNCHANGED <<entry, chatbot, users, verifies, held, riderStats, today, orders, payment, activeOrdersPool, activeRidersPool,
                 sockets, expired, sweeper, ops>>

confirm_findPayment(h) ==
  /\ At(h, "confirm", "findPayment")
  /\ IF ~PaymentSucceeded
       THEN /\ handlers' = [handlers EXCEPT ![h] = Idle]
            /\ events' = Emit(events, Ev("http", Customer, "confirm", handlers[h].o, "400"))
       ELSE /\ handlers' = [handlers EXCEPT ![h].pc = "save",
                                            ![h].setStatus = "pending",
                                            ![h].setRider = handlers[h].docRider]
            /\ UNCHANGED events
  /\ UNCHANGED <<entry, chatbot, users, verifies, held, riderStats, today, orders, payment, activeOrdersPool, activeRidersPool,
                 sockets, expired, sweeper, ops>>

confirm_save(h) ==
  /\ At(h, "confirm", "save")
  /\ LET o == handlers[h].o IN
     orders' = [orders EXCEPT ![o].status = SavedStatus(orders[o], handlers[h])]
  /\ handlers' = [handlers EXCEPT ![h].pc = "populate"]
  /\ UNCHANGED <<entry, chatbot, users, verifies, held, riderStats, today, payment, activeOrdersPool, activeRidersPool, sockets,
                 expired, sweeper, events, ops>>

confirm_populate(h) ==
  /\ At(h, "confirm", "populate")
  /\ LET o == handlers[h].o IN
     events' = EmitAll(events,
        << Ev("restaurant", Restaurant, "new_order_received", o, "pending"),
           Ev("http", Customer, "confirm", o, "200") >>)
  /\ handlers' = [handlers EXCEPT ![h] = Idle]
  /\ UNCHANGED <<entry, chatbot, users, verifies, held, riderStats, today, orders, payment, activeOrdersPool, activeRidersPool,
                 sockets, expired, sweeper, ops>>

(***************************************************************************)
(* socket.on('restaurant_accept_order')                                    *)
(***************************************************************************)
restaurant_accept_order_start(h, o) ==
  /\ FreeSlot(h)
  /\ AnySocketOpen
  /\ handlers' = [handlers EXCEPT ![h] =
        Begin(h, "restaurant_accept_order", "findOrder", o, Restaurant)]
  /\ ops' = ops + 1
  /\ UNCHANGED <<entry, chatbot, users, verifies, held, riderStats, today, orders, payment, activeOrdersPool,
                 activeRidersPool, sockets, expired, sweeper, events>>

\* the status restaurant_accept_order assigns
AcceptStatus == IF entry = "part_001" THEN "awaiting_rider" ELSE "accepted"

restaurant_accept_order_findOrder(h) ==
  /\ At(h, "restaurant_accept_order", "findOrder")
  /\ LET o == handlers[h].o IN
     IF orders[o].status = None
       THEN /\ handlers' = [handlers EXCEPT ![h] = Idle]
            /\ events' = Emit(events, Ev("socket", Restaurant, "error", o, "Order not found"))
       ELSE /\ handlers' = [handlers EXCEPT ![h].pc = "save",
                                            ![h].docStatus = orders[o].status,
                                            ![h].docRider = orders[o].rider,
                                            ![h].docFee = orders[o].deliveryFee,
                                            ![h].setStatus = AcceptStatus,
                                            ![h].setRider = orders[o].rider]
            /\ UNCHANGED events
  /\ UNCHANGED <<entry, chatbot, users, verifies, held, riderStats, today, orders, payment, activeOrdersPool,
                 activeRidersPool, sockets, expired, sweeper, ops>>

\* await order.save(), the projection, the two status events; then the
\* call of notifyNearbyRiders up to its User.findById
restaurant_accept_order_save(h) ==
  /\ At(h, "restaurant_accept_order", "save")
  /\ LET o == handlers[h].o
         st == handlers[h].setStatus
     IN
     IF ~ValidStatus(st)
       THEN /\ handlers' = [handlers EXCEPT ![h] = Idle]
            /\ UNCHANGED <<orders, activeOrdersPool, events>>
       ELSE /\ orders' = [orders EXCEPT ![o].status = SavedStatus(orders[o], handlers[h])]
            /\ activeOrdersPool' =
                 IF activeOrdersPool[o].present
                   THEN [activeOrdersPool EXCEPT ![o].status = st]
                   ELSE activeOrdersPool
            /\ events' = EmitAll(events,
                 << Ev("order", o, "order_status_changed", o, st),
                    Ev("restaurant", Restaurant, "order_status_changed", o, st) >>)
            /\ handlers' = [handlers EXCEPT ![h].pc = "notify"]
  /\ UNCHANGED <<entry, chatbot, users, verifies, held, riderStats, today, payment, activeRidersPool, sockets,
                 expired, sweeper, ops>>

\* notifyNearbyRiders: the riders of the pool within MAX_DISTANCE_KM; the
\* forEach throws at `riderData.coordinates.latitude` when a record has no
\* coordinates, and then nobody is notified
nearbyRiders ==
  IF \E r \in UserIds : activeRidersPool[r].present
                        /\ activeRidersPool[r].coordinates = Missing
    THEN {}
    ELSE {r \in UserIds : /\ activeRidersPool[r].present
                          /\ WithinRange(RestaurantLat, activeRidersPool[r].coordinates)}

\* notifyNearbyRiders: await User.findById(order.restaurant) and the scan
restaurant_accept_order_notify(h) ==
  /\ At(h, "restaurant_accept_order", "notify")
  /\ events' = EmitAll(events,
        SetToSeq({AvailableNotice(r, handlers[h].o, handlers[h].docFee) :
                    r \in nearbyRiders}))
  /\ handlers' = [handlers EXCEPT ![h] = Idle]
  /\ UNCHANGED <<entry, chatbot, users, verifies, held, riderStats, today, orders, payment, activeOrdersPool,
                 activeRidersPool, sockets, expired, sweeper, ops>>

(***************************************************************************)
(* socket.on('restaurant_reject_order')                                    *)
(***************************************************************************)
restaurant_reject_order_start(h, o) ==
  /\ FreeSlot(h)
  /\ AnySocketOpen
  /\ handlers' = [handlers EXCEPT ![h] =
        Begin(h, "restaurant_reject_order", "findOrder", o, Restaurant)]
  /\ ops' = ops + 1
  /\ UNCHANGED <<entry, chatbot, users, verifies, held, riderStats, today, orders, payment, activeOrdersPool,
                 activeRidersPool, sockets, expired, sweeper, events>>

restaurant_reject_order_findOrder(h) ==
  /\ At(h, "restaurant_reject_order", "findOrder")
  /\ LET o == handlers[h].o IN
     IF orders[o].status = None
       THEN handlers' = [handlers EXCEPT ![h] = Idle]
       ELSE handlers' = [handlers EXCEPT ![h].pc = "save",
                                         ![h].docStatus = orders[o].status,
                                         ![h].docRider = orders[o].rider,
                                         ![h].setStatus = "rejected",
                                         ![h].setRider = orders[o].rider]
  /\ UNCHANGED <<entry, chatbot, users, verifies, held, riderStats, today, orders, payment, activeOrdersPool,
                 activeRidersPool, sockets, expired, sweeper, events, ops>>

restaurant_reject_order_save(h) ==
  /\ At(h, "restaurant_reject_order", "save")
  /\ LET o == handlers[h].o IN
     /\ orders' = [orders EXCEPT ![o].status = SavedStatus(orders[o], handlers[h])]
     /\ activeOrdersPool' = [activeOrdersPool EXCEPT ![o] = NoProjection]
     /\ events' = EmitAll(events,
           << Ev("order", o, "order_status_changed", o, "rejected") >> \o
           (IF entry = "part_001"
              THEN << Ev("restaurant", Restaurant, "order_status_changed", o, "rejected") >>
              ELSE << >>))
  /\ handlers' = [handlers EXCEPT ![h] = Idle]
  /\ UNCHANGED <<entry, chatbot, users, verifies, held, riderStats, today, payment, activeRidersPool, sockets,
                 expired, sweeper, ops>>

(***************************************************************************)
(* socket.on('rider_accept_order'): the claim                              *)
(***************************************************************************)
rider_accept_order_start(h, o, u) ==
  /\ FreeSlot(h)
  /\ AnySocketOpen
  /\ handlers' = [handlers EXCEPT ![h] =
        Begin(h, "rider_accept_order", "findOrder", o, u)]
  /\ ops' = ops + 1
  /\ UNCHANGED <<entry, chatbot, users, verifies, held, riderStats, today, orders, payment, activeOrdersPool,
                 activeRidersPool, sockets, expired, sweeper, events>>

\* the availability check of the claim on the loaded document
OrderAvailable(ord) ==
  IF entry = "part_001"
    THEN ord.status = "awaiting_rider" /\ ord.rider = None
    ELSE ord.status = "accepted"

\* await Order.findById(orderId).populate(...) and the availability check
rider_accept_order_findOrder(h) ==
  /\ At(h, "rider_accept_order", "findOrder")
  /\ LET o == handlers[h].o
         u == handlers[h].u
     IN
     IF orders[o].status = None \/ ~OrderAvailable(orders[o])
       THEN /\ handlers' = [handlers EXCEPT ![h] = Idle]
            /\ events' = Emit(events, Ev("socket", u, "error", o, "Order not available"))
       ELSE /\ handlers' = [handlers EXCEPT ![h].pc = "findRestaurant",
                                            ![h].docStatus = orders[o].status,
                                            ![h].docRider = orders[o].rider,
                                            ![h].docFee = orders[o].deliveryFee]
            /\ UNCHANGED events
  /\ UNCHANGED <<entry, chatbot, users, verifies, held, riderStats, today, orders, payment, activeOrdersPool,
                 activeRidersPool, sockets, expired, sweeper, ops>>

\* const riderData = activeRidersPool.get(riderId)
GetRiderData(hr) ==
  IF hr.u \in UserIds /\ activeRidersPool[hr.u].present
    THEN [hr EXCEPT !.ref = "live"]
    ELSE [hr EXCEPT !.ref = None]

\* await User.findById(order.restaurant._id), the earnings and the
\* assignments to the document; part_001 reads the rider record here
rider_accept_order_findRestaurant(h) ==
  /\ At(h, "rider_accept_order", "findRestaurant")
  /\ LET hr == [handlers[h] EXCEPT
                  !.setRider = handlers[h].u,
                  !.setStatus = "rider_assigned",
                  !.setEarnings = riderEarnings(handlers[h].docFee,
                                    calculateDistance(RestaurantLat, CustomerLat))]
     IN handlers' = [handlers EXCEPT ![h] =
          IF entry = "part_001"
            THEN [GetRiderData(hr) EXCEPT !.pc = "findRider"]
            ELSE [hr EXCEPT !.pc = "save"]]
  /\ UNCHANGED <<entry, chatbot, users, verifies, held, riderStats, today, orders, payment, activeOrdersPool,
                 activeRidersPool, sockets, expired, sweeper, events, ops>>

\* riderData.activeOrders.push(orderId); activeRidersPool.set(riderId, riderData)
PushActiveOrder(pool, hr) ==
  IF hr.ref = "live"
    THEN [pool EXCEPT ![hr.u].activeOrders = Append(@, hr.o)]
  ELSE IF hr.ref = "shared"
    THEN [pool EXCEPT ![hr.u] =
           [hr.copy EXCEPT !.activeOrders = Append(pool[hr.u].activeOrders, hr.o)]]
  ELSE IF hr.ref = "stale"
    THEN [pool EXCEPT ![hr.u] =
           [hr.copy EXCEPT !.activeOrders = Append(hr.copy.activeOrders, hr.o)]]
  ELSE pool

\* what the other handlers hold once handler h has put its object back
AfterSet(hs, h) ==
  LET hr == hs[h] IN
  IF hr.ref = "shared" THEN DetachShared(hs, hr.u)
  ELSE IF hr.ref = "stale"
    THEN [g \in Slots |->
            IF g # h /\ hs[g].u = hr.u /\ hs[g].ref = "stale"
               /\ hs[g].copy = hr.copy
              THEN [hs[g] EXCEPT !.ref = "live"]
              ELSE Detach(hs, hr.u)[g]]
  ELSE hs

\* riderData?.coordinates of the record the handler holds
HeldCoordinates(hr) ==
  IF hr.ref = "live" THEN activeRidersPool[hr.u].coordinates
  ELSE IF hr.ref \in {"shared", "stale"} THEN hr.copy.coordinates
  ELSE Undefined

\* if (riderData?.coordinates): the handler holds a record and the record
\* has a coordinates object
HeldHasCoordinates(hr) ==
  /\ hr.ref \in {"live", "shared", "stale"}
  /\ HeldCoordinates(hr) # Missing

\* the updates and notices after the durable write of a claim; part_001
\* sends the first rider_location_live only if (riderData?.coordinates)
ClaimEvents(evs, hr, pool) ==
  EmitAll(evs,
    SetToSeq({Ev("rider", r, "order_taken", hr.o, None) :
                r \in {x \in UserIds : pool[x].present /\ x # hr.u}}) \o
    << Ev("order", hr.o, "order_accepted", hr.o, "rider_assigned") >> \o
    (IF entry = "part_001" /\ HeldHasCoordinates(hr)
       THEN << Ev("order", hr.o, "rider_location_live", hr.o, None) >>
       ELSE << >>) \o
    << Ev("restaurant", Restaurant, "order_status_changed", hr.o, "rider_assigned"),
       Ev("socket", hr.u, "order_accepted_confirmation", hr.o, None) >>)

ClaimFinish(h, hr) ==
  LET o == hr.o
      pool == PushActiveOrder(activeRidersPool, hr)
  IN
  /\ activeRidersPool' = pool
  /\ activeOrdersPool' =
       IF activeOrdersPool[o].present
         THEN [activeOrdersPool EXCEPT ![o].status = "rider_assigned",
                                       ![o].riderId = hr.u,
                                       ![o].riderCoordinates = HeldCoordinates(hr)]
         ELSE activeOrdersPool
  /\ events' = ClaimEvents(events, hr, pool)
  /\ handlers' = [AfterSet(handlers, h) EXCEPT ![h] = Idle]

\* the write is lost
ClaimSaveLost(ords, hr) == ords

\* the durable write of the claim.  part_001 has assigned order.riderLocation
\* when the record it holds has a coordinates object, whatever its latitude
\* (hr.lat is Missing when it has none); server.js never assigns it.
ClaimSave(ords, hr) ==
  [ords EXCEPT ![hr.o].status = SavedStatus(ords[hr.o], hr),
               ![hr.o].rider = SavedRider(ords[hr.o], hr),
               ![hr.o].riderEarnings = hr.setEarnings,
               ![hr.o].riderLocation =
                  IF entry = "part_001" /\ hr.lat # Missing THEN hr.lat ELSE @]

\* await User.findById(riderId): in part_001 before the save, in server.js
\* after it
rider_accept_order_findRider(h) ==
  /\ At(h, "rider_accept_order", "findRider")
  /\ IF entry = "part_001"
       THEN /\ handlers' = [handlers EXCEPT ![h].pc = "save",
                                            ![h].lat = IF HeldHasCoordinates(handlers[h])
                                                         THEN HeldCoordinates(handlers[h])
                                                         ELSE Missing]
            /\ UNCHANGED <<activeRidersPool, activeOrdersPool, events>>
       ELSE ClaimFinish(h, handlers[h])
  /\ UNCHANGED <<entry, chatbot, users, verifies, held, riderStats, today, orders, payment, sockets, expired,
                 sweeper, ops>>

\* await order.save()
rider_accept_order_save(h) ==
  /\ At(h, "rider_accept_order", "save")
  /\ orders' = ClaimSave(orders, handlers[h])
  /\ IF entry = "part_001"
       THEN ClaimFinish(h, handlers[h])
       ELSE /\ handlers' = [handlers EXCEPT ![h] =
                  [GetRiderData(handlers[h]) EXCEPT !.pc = "findRider"]]
            /\ UNCHANGED <<activeRidersPool, activeOrdersPool, events>>
  /\ UNCHANGED <<entry, chatbot, users, verifies, held, riderStats, today, payment, sockets, expired, sweeper, ops>>

\* await order.save() rejects: the catch block logs the error and sends
\* order_accept_error to the socket of the claim
rider_accept_order_save_fails(h) ==
  /\ At(h, "rider_accept_order", "save")
  /\ events' = Emit(events, Ev("socket", handlers[h].u, "order_accept_error",
                              handlers[h].o, "Failed to accept order"))
  /\ handlers' = [handlers EXCEPT ![h] = Idle]
  /\ UNCHANGED <<entry, chatbot, users, verifies, held, riderStats, today, orders, payment,
                 activeOrdersPool, activeRidersPool, sockets, expired, sweeper, ops>>

(***************************************************************************)
(* router.post('/:id/accept'): the claim over REST                         *)
(***************************************************************************)
accept_start(h, o, u) ==
  /\ FreeSlot(h)
  /\ handlers' = [handlers EXCEPT ![h] = Begin(h, "accept", "findOrder", o, u)]
  /\ ops' = ops + 1
  /\ UNCHANGED <<entry, chatbot, users, verifies, held, riderStats, today, orders, payment, activeOrdersPool,
                 activeRidersPool, sockets, expired, sweeper, events>>

accept_findOrder(h) ==
  /\ At(h, "accept", "findOrder")
  /\ LET o == handlers[h].o
         u == handlers[h].u
     IN
     IF orders[o].status = None
       THEN /\ handlers' = [handlers EXCEPT ![h] = Idle]
            /\ events' = Emit(events, Ev("http", u, "accept", o, "404"))
     ELSE IF orders[o].status # "pending"
       THEN /\ handlers' = [handlers EXCEPT ![h] = Idle]
            /\ events' = Emit(events, Ev("http", u, "accept", o, "400"))
     ELSE /\ handlers' = [handlers EXCEPT ![h].pc = "findRider",
                                          ![h].docStatus = orders[o].status,
                                          ![h].docRider = orders[o].rider]
          /\ UNCHANGED events
  /\ UNCHANGED <<entry, chatbot, users, verifies, held, riderStats, today, orders, payment, activeOrdersPool,
                 activeRidersPool, sockets, expired, sweeper, ops>>

accept_findRider(h) ==
  /\ At(h, "accept", "findRider")
  /\ LET u == handlers[h].u IN
     IF Role(u) # "rider"
       THEN /\ handlers' = [handlers EXCEPT ![h] = Idle]
            /\ events' = Emit(events, Ev("http", u, "accept", handlers[h].o, "404"))
       ELSE /\ handlers' = [handlers EXCEPT ![h].pc = "save",
                                            ![h].setRider = u,
                                            ![h].setStatus = "rider_assigned"]
            /\ UNCHANGED events
  /\ UNCHANGED <<entry, chatbot, users, verifies, held, riderStats, today, orders, payment, activeOrdersPool,
                 activeRidersPool, sockets, expired, sweeper, ops>>

\* await order.save() and the notices; the pools are not touched.  The
\* restaurant notice goes to the room named after the populated document.
accept_save(h) ==
  /\ At(h, "accept", "save")
  /\ LET o == handlers[h].o
         u == handlers[h].u
     IN
     /\ orders' = [orders EXCEPT ![o].status = SavedStatus(orders[o], handlers[h]),
                                 ![o].rider = SavedRider(orders[o], handlers[h])]
     /\ events' = EmitAll(events,
           SetToSeq({Ev("rider", r, "order_taken", o, None) :
                       r \in {x \in UserIds : activeRidersPool[x].present}}) \o
           << Ev("order", o, "order_accepted", o, "rider_assigned"),
              Ev("restaurant", "[object]", "order_status_changed", o, "rider_assigned"),
              Ev("http", u, "accept", o, "200") >>)
  /\ handlers' = [handlers EXCEPT ![h] = Idle]
  /\ UNCHANGED <<entry, chatbot, users, verifies, held, riderStats, today, payment, activeOrdersPool,
                 activeRidersPool, sockets, expired, sweeper, ops>>

\* await order.save() rejects: the catch block answers 500
accept_save_fails(h) ==
  /\ At(h, "accept", "save")
  /\ events' = Emit(events, Ev("http", handlers[h].u, "accept", handlers[h].o, "500"))
  /\ handlers' = [handlers EXCEPT ![h] = Idle]
  /\ UNCHANGED <<entry, chatbot, users, verifies, held, riderStats, today, orders, payment,
                 activeOrdersPool, activeRidersPool, sockets, expired, sweeper, ops>>

(***************************************************************************)
(* socket.on('update_order_status')                                        *)
(***************************************************************************)
update_order_status_start(h, o, st) ==
  /\ FreeSlot(h)
  /\ AnySocketOpen
  /\ handlers' = [handlers EXCEPT ![h] =
        [Begin(h, "update_order_status", "findOrder", o, None) EXCEPT !.st = st]]
  /\ ops' = ops + 1
  /\ UNCHANGED <<entry, chatbot, users, verifies, held, riderStats, today, orders, payment, activeOrdersPool,
                 activeRidersPool, sockets, expired, sweeper, events>>

update_order_status_findOrder(h) ==
  /\ At(h, "update_order_status", "findOrder")
  /\ LET o == handlers[h].o IN
     IF orders[o].status = None
       THEN handlers' = [handlers EXCEPT ![h] = Idle]
       ELSE handlers' = [handlers EXCEPT ![h].pc = "save",
                                         ![h].docStatus = orders[o].status,
                                         ![h].docRider = orders[o].rider,
                                         ![h].setStatus = handlers[h].st,
                                         ![h].setRider = orders[o].rider]
  /\ UNCHANGED <<entry, chatbot, users, verifies, held, riderStats, today, orders, payment, activeOrdersPool,
                 activeRidersPool, sockets, expired, sweeper, events, ops>>

\* riderData.activeOrders = riderData.activeOrders.filter(id => id !== orderId):
\* the record gets a new array, the old one stays with whoever shares it
Unshare(hs, r) ==
  [h \in Slots |->
     IF hs[h].u = r /\ hs[h].ref = "shared"
       THEN [hs[h] EXCEPT !.ref = "stale",
               !.copy.activeOrders = activeRidersPool[r].activeOrders]
       ELSE hs[h]]

\* removal of a delivered order from the rider record and the projections
RemoveDelivered(h, o, r) ==
  /\ activeOrdersPool' = [activeOrdersPool EXCEPT ![o] = NoProjection]
  /\ IF r \in UserIds /\ activeRidersPool[r].present
       THEN /\ activeRidersPool' = [activeRidersPool EXCEPT
                  ![r].activeOrders = Filter(@, o)]
            /\ handlers' = [Unshare(handlers, r) EXCEPT ![h] = Idle]
       ELSE /\ UNCHANGED activeRidersPool
            /\ handlers' = [handlers EXCEPT ![h] = Idle]

update_order_status_save(h) ==
  /\ At(h, "update_order_status", "save")
  /\ LET o == handlers[h].o
         st == handlers[h].setStatus
     IN
     IF ~ValidStatus(st)
       THEN /\ handlers' = [handlers EXCEPT ![h] = Idle]
            /\ UNCHANGED <<orders, activeOrdersPool, activeRidersPool, events>>
       ELSE /\ orders' = [orders EXCEPT ![o].status = SavedStatus(orders[o], handlers[h])]
            /\ events' = EmitAll(events,
                 << Ev("order", o, "order_status_changed", o, st) >> \o
                 (IF entry = "part_001"
                    THEN << Ev("restaurant", Restaurant, "order_status_changed", o, st) >>
                    ELSE << >>))
            /\ IF st = "delivered"
                 THEN RemoveDelivered(h, o, handlers[h].docRider)
                 ELSE /\ activeOrdersPool' =
                           IF activeOrdersPool[o].present
                             THEN [activeOrdersPool EXCEPT ![o].status = st]
                             ELSE activeOrdersPool
                      /\ handlers' = [handlers EXCEPT ![h] = Idle]
                      /\ UNCHANGED activeRidersPool
  /\ UNCHANGED <<entry, chatbot, users, verifies, held, riderStats, today, payment, sockets, expired, sweeper, ops>>

(***************************************************************************)
(* Rider statistics on delivery (PATCH status and verify-delivery-pin)     *)
(***************************************************************************)
\* the assignments to rider.riderDetails for a delivery that earned e, made
\* on the day the handler reads from the clock (const today = new Date())
DeliveredStats(st, e) ==
  LET reset == st.lastEarningsReset # today
      base == IF reset THEN 0 ELSE st.todayEarnings
  IN [totalDeliveries |-> st.totalDeliveries + 1,
      totalEarnings |-> st.totalEarnings + e,
      todayEarnings |-> base + e,
      lastEarningsReset |-> IF reset THEN today ELSE st.lastEarningsReset]

\* rider.save(): the paths whose value was changed are written
SavedStats(cur, hr) ==
  [f \in DOMAIN cur |->
     IF hr.setStats[f] # hr.docStats[f] THEN hr.setStats[f] ELSE cur[f]]

\* the status events of the REST status operations
StatusEvents(o, st) ==
  << Ev("order", o, "order_status_changed", o, st),
     Ev("restaurant", Restaurant, "order_status_changed", o, st) >>

\* await Order.findById(...): 404, or the document with the new status
\* assigned; a delivered order with a rider goes on to the rider's statistics
LoadForStatus(h, op, st) ==
  LET o == handlers[h].o IN
  IF orders[o].status = None
    THEN /\ handlers' = [handlers EXCEPT ![h] = Idle]
         /\ events' = Emit(events, Ev("http", None, op, o, "404"))
    ELSE /\ handlers' = [handlers EXCEPT
               ![h].pc = IF st = "delivered" /\ orders[o].rider # None
                           THEN "findRider" ELSE "save",
               ![h].docStatus = orders[o].status,
               ![h].docRider = orders[o].rider,
               ![h].docEarnings = orders[o].riderEarnings,
               ![h].setStatus = st,
               ![h].setRider = orders[o].rider]
         /\ UNCHANGED events

\* await User.findById(order.rider) and the assignments to the statistics
FindRiderForStats(h) ==
  LET r == handlers[h].docRider IN
  IF Role(r) = "rider"
    THEN handlers' = [handlers EXCEPT
           ![h].pc = "saveRider",
           ![h].docStats = riderStats[r],
           ![h].today = today,
           ![h].setStats = DeliveredStats(riderStats[r], handlers[h].docEarnings)]
    ELSE handlers' = [handlers EXCEPT ![h].pc = "save"]

\* await rider.save()
SaveRiderStats(h) ==
  LET r == handlers[h].docRider IN
  /\ riderStats' = [riderStats EXCEPT ![r] = SavedStats(riderStats[r], handlers[h])]
  /\ handlers' = [handlers EXCEPT ![h].pc = "save", ![h].today = Undefined]

(***************************************************************************)
(* router.put('/update-profile') of the auth routes.  The body carries a   *)
(* role (None: no role) and riderDetails: Missing when the body has none,  *)
(* and else the currentLocation.latitude of the object sent, which has no  *)
(* statistics.                                                             *)
(***************************************************************************)
validRoles == {"customer", "rider", "restaurant", "admin"}

\* the statistics of a riderDetails object that carries none
NoStatsSent == [totalDeliveries |-> 0, totalEarnings |-> 0, todayEarnings |-> 0,
                lastEarningsReset |-> Undefined]

update_profile_start(h, u, role, riderDetails) ==
  /\ FreeSlot(h)
  /\ ops' = ops + 1
  /\ IF role # None /\ role \notin validRoles
       THEN /\ events' = Emit(events, Ev("http", u, "update_profile", None, "400"))
            /\ UNCHANGED handlers
       ELSE /\ handlers' = [handlers EXCEPT ![h] =
                  [Begin(h, "update_profile", "findByIdAndUpdate", None, u)
                     EXCEPT !.st = role, !.lat = riderDetails]]
            /\ UNCHANGED events
  /\ UNCHANGED <<entry, chatbot, users, verifies, held, riderStats, today, orders, payment,
                 activeOrdersPool, activeRidersPool, sockets, expired, sweeper>>

\* await User.findByIdAndUpdate(req.user.id, fieldsToUpdate, ...)
update_profile_findByIdAndUpdate(h) ==
  /\ At(h, "update_profile", "findByIdAndUpdate")
  /\ LET u == handlers[h].u
         role == handlers[h].st
         riderDetails == handlers[h].lat
     IN /\ users' = [users EXCEPT
               ![u].role = IF role # None THEN role ELSE @,
               ![u].currentLocation = IF riderDetails # Missing THEN riderDetails ELSE @]
        /\ riderStats' = IF riderDetails # Missing
                           THEN [riderStats EXCEPT ![u] = NoStatsSent]
                           ELSE riderStats
        /\ events' = Emit(events, Ev("http", u, "update_profile", None, "200"))
  /\ handlers' = [handlers EXCEPT ![h] = Idle]
  /\ UNCHANGED <<entry, chatbot, verifies, held, today, orders, payment, activeOrdersPool,
                 activeRidersPool, sockets, expired, sweeper, ops>>

(***************************************************************************)
(* router.patch('/:id/status')                                             *)
(***************************************************************************)
patch_status_start(h, o, st) ==
  /\ FreeSlot(h)
  /\ ops' = ops + 1
  /\ IF st \notin validStatuses
       THEN /\ events' = Emit(events, Ev("http", None, "patch_status", o, "400"))
            /\ UNCHANGED handlers
       ELSE /\ handlers' = [handlers EXCEPT ![h] =
                  [Begin(h, "patch_status", "findOrder", o, None) EXCEPT !.st = st]]
            /\ UNCHANGED events
  /\ UNCHANGED <<entry, chatbot, users, verifies, held, riderStats, today, orders, payment, activeOrdersPool,
                 activeRidersPool, sockets, expired, sweeper>>

patch_status_findOrder(h) ==
  /\ At(h, "patch_status", "findOrder")
  /\ LoadForStatus(h, "patch_status", handlers[h].st)
  /\ UNCHANGED <<entry, chatbot, users, verifies, held, riderStats, today, orders, payment, activeOrdersPool,
                 activeRidersPool, sockets, expired, sweeper, ops>>

patch_status_findRider(h) ==
  /\ At(h, "patch_status", "findRider")
  /\ FindRiderForStats(h)
  /\ UNCHANGED <<entry, chatbot, users, verifies, held, riderStats, today, orders, payment, activeOrdersPool,
                 activeRidersPool, sockets, expired, sweeper, events, ops>>

patch_status_saveRider(h) ==
  /\ At(h, "patch_status", "saveRider")
  /\ SaveRiderStats(h)
  /\ UNCHANGED <<entry, chatbot, users, verifies, held, today, orders, payment, activeOrdersPool,
                 activeRidersPool, sockets, expired, sweeper, events, ops>>

patch_status_save(h) ==
  /\ At(h, "patch_status", "save")
  /\ LET o == handlers[h].o IN
     /\ orders' = [orders EXCEPT ![o].status = SavedStatus(orders[o], handlers[h])]
     /\ events' = EmitAll(events, StatusEvents(o, handlers[h].setStatus) \o
                      << Ev("http", None, "patch_status", o, "200") >>)
  /\ handlers' = [handlers EXCEPT ![h] = Idle]
  /\ UNCHANGED <<entry, chatbot, users, verifies, held, riderStats, today, payment, activeOrdersPool,
                 activeRidersPool, sockets, expired, sweeper, ops>>

(***************************************************************************)
(* router.post('/:id/verify-pickup-pin') and '/:id/verify-delivery-pin'    *)
(***************************************************************************)
\* a request body without a pin, or with one
NoPin == "undefined"
Pins == {NoPin, "1234"}

\* order.pickupPin, order.deliveryPin: orderSchema has no such paths, so a
\* loaded document has neither
pickupPin(ord) == NoPin
deliveryPin(ord) == NoPin

verify_pickup_pin_start(h, o, pin) ==
  /\ FreeSlot(h)
  /\ handlers' = [handlers EXCEPT ![h] =
        [Begin(h, "verify_pickup_pin", "findOrder", o, None) EXCEPT !.st = pin]]
  /\ ops' = ops + 1
  /\ UNCHANGED <<entry, chatbot, users, verifies, held, riderStats, today, orders, payment, activeOrdersPool,
                 activeRidersPool, sockets, expired, sweeper, events>>

verify_pickup_pin_findOrder(h) ==
  /\ At(h, "verify_pickup_pin", "findOrder")
  /\ LET o == handlers[h].o IN
     IF orders[o].status # None /\ pickupPin(orders[o]) # handlers[h].st
       THEN /\ handlers' = [handlers EXCEPT ![h] = Idle]
            /\ events' = Emit(events, Ev("http", None, "verify_pickup_pin", o, "400"))
       ELSE LoadForStatus(h, "verify_pickup_pin", "picked_up")
  /\ UNCHANGED <<entry, chatbot, users, verifies, held, riderStats, today, orders, payment, activeOrdersPool,
                 activeRidersPool, sockets, expired, sweeper, ops>>

verify_pickup_pin_save(h) ==
  /\ At(h, "verify_pickup_pin", "save")
  /\ LET o == handlers[h].o IN
     orders' = [orders EXCEPT ![o].status = SavedStatus(orders[o], handlers[h])]
  /\ handlers' = [handlers EXCEPT ![h].pc = "populate"]
  /\ UNCHANGED <<entry, chatbot, users, verifies, held, riderStats, today, payment, activeOrdersPool,
                 activeRidersPool, sockets, expired, sweeper, events, ops>>

verify_pickup_pin_populate(h) ==
  /\ At(h, "verify_pickup_pin", "populate")
  /\ LET o == handlers[h].o IN
     events' = EmitAll(events, StatusEvents(o, "picked_up") \o
                  << Ev("http", None, "verify_pickup_pin", o, "200") >>)
  /\ handlers' = [handlers EXCEPT ![h] = Idle]
  /\ UNCHANGED <<entry, chatbot, users, verifies, held, riderStats, today, orders, payment, activeOrdersPool,
                 activeRidersPool, sockets, expired, sweeper, ops>>

verify_delivery_pin_start(h, o, pin) ==
  /\ FreeSlot(h)
  /\ handlers' = [handlers EXCEPT ![h] =
        [Begin(h, "verify_delivery_pin", "findOrder", o, None) EXCEPT !.st = pin]]
  /\ ops' = ops + 1
  /\ UNCHANGED <<entry, chatbot, users, verifies, held, riderStats, today, orders, payment, activeOrdersPool,
                 activeRidersPool, sockets, expired, sweeper, events>>

verify_delivery_pin_findOrder(h) ==
  /\ At(h, "verify_delivery_pin", "findOrder")
  /\ LET o == handlers[h].o IN
     IF orders[o].status # None /\ deliveryPin(orders[o]) # handlers[h].st
       THEN /\ handlers' = [handlers EXCEPT ![h] = Idle]
            /\ events' = Emit(events, Ev("http", None, "verify_delivery_pin", o, "400"))
       ELSE LoadForStatus(h, "verify_delivery_pin", "delivered")
  /\ UNCHANGED <<entry, chatbot, users, verifies, held, riderStats, today, orders, payment, activeOrdersPool,
                 activeRidersPool, sockets, expired, sweeper, ops>>

verify_delivery_pin_findRider(h) ==
  /\ At(h, "verify_delivery_pin", "findRider")
  /\ FindRiderForStats(h)
  /\ UNCHANGED <<entry, chatbot, users, verifies, held, riderStats, today, orders, payment, activeOrdersPool,
                 activeRidersPool, sockets, expired, sweeper, events, ops>>

verify_delivery_pin_saveRider(h) ==
  /\ At(h, "verify_delivery_pin", "saveRider")
  /\ SaveRiderStats(h)
  /\ UNCHANGED <<entry, chatbot, users, verifies, held, today, orders, payment, activeOrdersPool,
                 activeRidersPool, sockets, expired, sweeper, events, ops>>

verify_delivery_pin_save(h) ==
  /\ At(h, "verify_delivery_pin", "save")
  /\ LET o == handlers[h].o IN
     orders' = [orders EXCEPT ![o].status = SavedStatus(orders[o], handlers[h])]
  /\ handlers' = [handlers EXCEPT ![h].pc = "populate"]
  /\ UNCHANGED <<entry, chatbot, users, verifies, held, riderStats, today, payment, activeOrdersPool,
                 activeRidersPool, sockets, expired, sweeper, events, ops>>

verify_delivery_pin_populate(h) ==
  /\ At(h, "verify_delivery_pin", "populate")
  /\ LET o == handlers[h].o IN
     events' = EmitAll(events, StatusEvents(o, "delivered") \o
                  << Ev("http", None, "verify_delivery_pin", o, "200") >>)
  /\ handlers' = [handlers EXCEPT ![h] = Idle]
  /\ UNCHANGED <<entry, chatbot, users, verifies, held, riderStats, today, orders, payment, activeOrdersPool,
                 activeRidersPool, sockets, expired, sweeper, ops>>

(***************************************************************************)
(* The auto-reject sweeper: setInterval(async () => {...}, 60000)          *)
(***************************************************************************)
\* const tenMinutesAgo = new Date(Date.now() - 10 * 60 * 1000), taken when
\* the timer fires: the orders created before that date
CreatedBeforeCutoff == {o \in Orders : expired[o]}

\* Order.find({ status: 'pending', createdAt: { $lt: tenMinutesAgo } })
\* a query that leaves out the age of the order
MatchesAnyPending(o, tenMinutesAgo) == orders[o].status = "pending"

\* the filter: pending when the query runs, and created before the date
\* the run took when it started
MatchesQuery(o, tenMinutesAgo) ==
  orders[o].status = "pending" /\ o \in tenMinutesAgo

RECURSIVE pendingOrders(_, _)
pendingOrders(i, tenMinutesAgo) ==
  IF i > Len(OrderIds) THEN <<>>
  ELSE (IF MatchesQuery(OrderIds[i], tenMinutesAgo)
          THEN <<OrderIds[i]>> ELSE <<>>) \o pendingOrders(i + 1, tenMinutesAgo)

\* the timer fires: a run starts (the previous one may still be running),
\* takes its cutoff date from the clock and sends the query
sweeper_tick(w) ==
  /\ sweeper[w].pc = "idle"
  /\ \A i \in 1..Len(SweepIds) :
        SweepIds[i] = w => \A j \in 1..(i - 1) : sweeper[SweepIds[j]].pc # "idle"
  /\ sweeper' = [sweeper EXCEPT ![w].pc = "find",
                                 ![w].tenMinutesAgo = CreatedBeforeCutoff]
  /\ UNCHANGED <<entry, chatbot, users, verifies, held, riderStats, today, orders, payment, activeOrdersPool,
                 activeRidersPool, sockets, expired, handlers, events, ops>>

\* await Order.find(...); the loop assigns the first document and saves
sweeper_find(w) ==
  /\ sweeper[w].pc = "find"
  /\ LET found == pendingOrders(1, sweeper[w].tenMinutesAgo) IN
     sweeper' = [sweeper EXCEPT ![w] =
        IF found = <<>> THEN IdleSweeper
        ELSE [IdleSweeper EXCEPT !.pc = "save", !.todo = found]]
  /\ UNCHANGED <<entry, chatbot, users, verifies, held, riderStats, today, orders, payment, activeOrdersPool,
                 activeRidersPool, sockets, expired, handlers, events, ops>>

\* the status the sweeper writes
SweptStatus == "auto_rejected"

\* await order.save() of the current document (loaded as pending), the
\* removal of the projection and the status event; then the next document
sweeper_save(w) ==
  /\ sweeper[w].pc = "save"
  /\ LET o == Head(sweeper[w].todo) IN
     /\ orders' = [orders EXCEPT ![o].status = SweptStatus]
     /\ activeOrdersPool' = [activeOrdersPool EXCEPT ![o] = NoProjection]
     /\ events' = Emit(events, Ev("order", o, "order_status_changed", o, SweptStatus))
  /\ sweeper' = [sweeper EXCEPT ![w] =
        IF Tail(sweeper[w].todo) = <<>> THEN IdleSweeper
        ELSE [IdleSweeper EXCEPT !.pc = "save", !.todo = Tail(sweeper[w].todo)]]
  /\ UNCHANGED <<entry, chatbot, users, verifies, held, riderStats, today, payment, activeRidersPool, sockets,
                 expired, handlers, ops>>

\* await order.save() of the current document rejects: the exception leaves
\* the for loop and is caught by the try around the whole callback, which
\* logs it
sweeper_save_fails(w) ==
  /\ sweeper[w].pc = "save"
  /\ sweeper' = [sweeper EXCEPT ![w] = IdleSweeper]
  /\ events' = Emit(events, Ev("log", None, "console.error", Head(sweeper[w].todo),
                              "Error in auto-reject interval"))
  /\ UNCHANGED <<entry, chatbot, users, verifies, held, riderStats, today, orders, payment, activeOrdersPool,
                 activeRidersPool, sockets, expired, handlers, ops>>

(***************************************************************************)
(* The clock.                                                              *)
(***************************************************************************)
\* ten minutes have passed since the order was created
Tick(o) ==
  /\ orders[o].status # None
  /\ ~expired[o]
  /\ expired' = [expired EXCEPT ![o] = TRUE]
  /\ UNCHANGED <<entry, chatbot, users, verifies, held, riderStats, today, orders, payment, activeOrdersPool,
                 activeRidersPool, sockets, handlers, sweeper, events, ops>>

MaxDay == 1

\* the calendar day changes
Midnight ==
  /\ today < MaxDay
  /\ today' = today + 1
  /\ UNCHANGED <<entry, chatbot, users, verifies, held, riderStats, orders, payment, activeOrdersPool,
                 activeRidersPool, sockets, expired, handlers, sweeper, events, ops>>

(***************************************************************************)
(* Specifications.  Each takes the operations of one part of the system    *)
(* with a small set of inputs.                                             *)
(***************************************************************************)
\* at most one order is placed
FirstOrder == orders["o1"].status = None /\ CanCreate /\
              \A h \in Slots : handlers[h].op \notin {"place", "pending"}

(***************************************************************************)
(* The claim: one order, a restaurant, riders claiming over the socket     *)
(* and over REST.                                                          *)
(***************************************************************************)
StartClaim(h) ==
  \/ rider_join_pool_start(h, "s1", "r1", NearLat)
  \/ FirstOrder /\ place_start(h, "cod", 0)
  \/ restaurant_accept_order_start(h, "o1")
  \/ \E u \in Riders : rider_accept_order_start(h, "o1", u)
  \/ \E u \in UserIds : accept_start(h, "o1", u)

StepClaim(h) ==
  \/ rider_join_pool_findRider(h)
  \/ place_findRestaurant(h)
  \/ place_save(h)
  \/ place_populate(h)
  \/ restaurant_accept_order_findOrder(h)
  \/ restaurant_accept_order_save(h)
  \/ restaurant_accept_order_notify(h)
  \/ rider_accept_order_findOrder(h)
  \/ rider_accept_order_findRestaurant(h)
  \/ rider_accept_order_findRider(h)
  \/ rider_accept_order_save(h)
  \/ accept_findOrder(h)
  \/ accept_findRider(h)
  \/ accept_save(h)

NextClaim ==
  \/ connection("s1")
  \/ \E h \in Slots : StartClaim(h)
  \/ \E h \in Slots : StepClaim(h)

SpecClaim == Init /\ [][NextClaim]_vars

(***************************************************************************)
(* The order lifecycle: every operation that writes the status of the one  *)
(* order, with one rider.                                                  *)
(***************************************************************************)
StatusInputs == {"pending", "preparing", "delivered", "cancelled", "awaiting_rider"}

\* the number of requests of one run of the lifecycle
MaxLifecycleOps == 3

StartLifecycle(h) ==
  \/ rider_join_pool_start(h, "s1", "r1", NearLat)
  \/ FirstOrder /\ place_start(h, "cod", 0)
  \/ confirm_start(h, "o1")
  \/ restaurant_accept_order_start(h, "o1")
  \/ restaurant_reject_order_start(h, "o1")
  \/ rider_accept_order_start(h, "o1", "r1")
  \/ accept_start(h, "o1", "r1")
  \/ \E st \in StatusInputs : update_order_status_start(h, "o1", st)
  \/ \E st \in StatusInputs : patch_status_start(h, "o1", st)
  \/ verify_pickup_pin_start(h, "o1", NoPin)
  \/ \E pin \in Pins : verify_delivery_pin_start(h, "o1", pin)

StepLifecycle(h) ==
  \/ rider_join_pool_findRider(h)
  \/ place_findRestaurant(h)
  \/ place_save(h)
  \/ place_populate(h)
  \/ confirm_findOrder(h)
  \/ confirm_findPayment(h)
  \/ confirm_save(h)
  \/ confirm_populate(h)
  \/ restaurant_accept_order_findOrder(h)
  \/ restaurant_accept_order_save(h)
  \/ restaurant_accept_order_notify(h)
  \/ restaurant_reject_order_findOrder(h)
  \/ restaurant_reject_order_save(h)
  \/ rider_accept_order_findOrder(h)
  \/ rider_accept_order_findRestaurant(h)
  \/ rider_accept_order_findRider(h)
  \/ rider_accept_order_save(h)
  \/ accept_findOrder(h)
  \/ accept_findRider(h)
  \/ accept_save(h)
  \/ update_order_status_findOrder(h)
  \/ update_order_status_save(h)
  \/ patch_status_findOrder(h)
  \/ patch_status_findRider(h)
  \/ patch_status_saveRider(h)
  \/ patch_status_save(h)
  \/ verify_pickup_pin_findOrder(h)
  \/ verify_pickup_pin_save(h)
  \/ verify_pickup_pin_populate(h)
  \/ verify_delivery_pin_findOrder(h)
  \/ verify_delivery_pin_findRider(h)
  \/ verify_delivery_pin_saveRider(h)
  \/ verify_delivery_pin_save(h)
  \/ verify_delivery_pin_populate(h)

Next ==
  \/ connection("s1")
  \/ \E h \in Slots : payment_create_order_start(h)
  \/ \E h \in Slots, m \in BOOLEAN : payment_verify_start(h, m)
  \/ \E h \in Slots : payment_create_order_create(h)
  \/ \E h \in Slots : payment_create_order_save(h)
  \/ \E h \in Slots : payment_verify_findPayment(h)
  \/ \E h \in Slots : payment_verify_save(h)
  \/ \E h \in Slots : ops < MaxLifecycleOps /\ StartLifecycle(h)
  \/ \E h \in Slots : StepLifecycle(h)

Spec == Init /\ [][Next]_vars

(***************************************************************************)
(* The sweeper beside the restaurant: orders are placed, time passes, the  *)
(* timer fires, and the restaurant accepts or rejects.                     *)
(***************************************************************************)
\* the number of requests of one run beside the sweeper
MaxSweepOps == 3

StartSweep(h) ==
  \/ CanCreate /\ place_start(h, "cod", 0)
  \/ \E o \in Orders : restaurant_accept_order_start(h, o)
  \/ \E o \in Orders : restaurant_reject_order_start(h, o)

StepSweep(h) ==
  \/ place_findRestaurant(h)
  \/ place_save(h)
  \/ place_populate(h)
  \/ restaurant_accept_order_findOrder(h)
  \/ restaurant_accept_order_save(h)
  \/ restaurant_accept_order_notify(h)
  \/ restaurant_reject_order_findOrder(h)
  \/ restaurant_reject_order_save(h)

NextSweep ==
  \/ connection("s1")
  \/ \E h \in Slots : ops < MaxSweepOps /\ StartSweep(h)
  \/ \E h \in Slots : StepSweep(h)
  \/ \E w \in Sweeps : sweeper_tick(w)
  \/ \E w \in Sweeps : sweeper_find(w)
  \/ \E w \in Sweeps : sweeper_save(w)
  \/ \E o \in Orders : Tick(o)

SpecSweep == Init /\ [][NextSweep]_vars

(***************************************************************************)
(* The sweeper alone: orders are placed and nobody acts on them.           *)
(***************************************************************************)
NextExpiry ==
  \/ \E h \in Slots : CanCreate /\ place_start(h, "cod", 0)
  \/ \E h \in Slots : place_findRestaurant(h)
  \/ \E h \in Slots : place_save(h)
  \/ \E h \in Slots : place_populate(h)
  \/ \E w \in Sweeps : sweeper_tick(w)
  \/ \E w \in Sweeps : sweeper_find(w)
  \/ \E w \in Sweeps : sweeper_save(w)
  \/ \E o \in Orders : Tick(o)

\* time passes, the timer keeps firing, and the store answers the sweeper
FairSweep ==
  /\ \A o \in Orders : WF_vars(Tick(o))
  /\ WF_vars(\E w \in Sweeps : sweeper_tick(w))
  /\ \A w \in Sweeps : WF_vars(sweeper_find(w)) /\ WF_vars(sweeper_save(w))

SpecExpiry == Init /\ [][NextExpiry]_vars /\ FairSweep

(***************************************************************************)
(* The sweeper with a faulty document: the store rejects every save of one *)
(* order and accepts the saves of the others.                              *)
(***************************************************************************)
FailingOrder == OrderIds[1]

\* the document the run of the sweeper is about to save
Current(w) == Head(sweeper[w].todo)

NextFault ==
  \/ \E h \in Slots : CanCreate /\ place_start(h, "cod", 0)
  \/ \E h \in Slots : place_findRestaurant(h)
  \/ \E h \in Slots : place_save(h)
  \/ \E h \in Slots : place_populate(h)
  \/ \E w \in Sweeps : sweeper_tick(w)
  \/ \E w \in Sweeps : sweeper_find(w)
  \/ \E w \in Sweeps :
        sweeper[w].pc = "save" /\ Current(w) # FailingOrder /\ sweeper_save(w)
  \/ \E w \in Sweeps :
        sweeper[w].pc = "save" /\ Current(w) = FailingOrder /\ sweeper_save_fails(w)
  \/ \E o \in Orders : Tick(o)

\* time passes, the timer keeps firing, and the store answers every save
FairFault ==
  /\ \A o \in Orders : WF_vars(Tick(o))
  /\ WF_vars(\E w \in Sweeps : sweeper_tick(w))
  /\ \A w \in Sweeps :
        /\ WF_vars(sweeper_find(w))
        /\ WF_vars(sweeper[w].pc = "save" /\ Current(w) # FailingOrder /\ sweeper_save(w))
        /\ WF_vars(sweeper[w].pc = "save" /\ Current(w) = FailingOrder
                      /\ sweeper_save_fails(w))

SpecFault == Init /\ [][NextFault]_vars /\ FairFault

(***************************************************************************)
(* Notices of a claim: one rider is in the registry and another rider      *)
(* claims the order, over the socket or over REST; the durable write of a  *)
(* claim completes or is rejected by the store.                            *)
(***************************************************************************)
MaxNoticeOps == 4

StartNotice(h) ==
  \/ rider_join_pool_start(h, "s1", "r1", NearLat)
  \/ FirstOrder /\ place_start(h, "cod", 0)
  \/ restaurant_accept_order_start(h, "o1")
  \/ rider_accept_order_start(h, "o1", "r2")
  \/ accept_start(h, "o1", "r2")

StepNotice(h) ==
  \/ rider_join_pool_findRider(h)
  \/ place_findRestaurant(h)
  \/ place_save(h)
  \/ place_populate(h)
  \/ restaurant_accept_order_findOrder(h)
  \/ restaurant_accept_order_save(h)
  \/ restaurant_accept_order_notify(h)
  \/ rider_accept_order_findOrder(h)
  \/ rider_accept_order_findRestaurant(h)
  \/ rider_accept_order_findRider(h)
  \/ rider_accept_order_save(h)
  \/ accept_findOrder(h)
  \/ accept_findRider(h)
  \/ accept_save(h)

\* the store rejects the durable write of a claim
StepNoticeFails(h) ==
  \/ rider_accept_order_save_fails(h)
  \/ accept_save_fails(h)

NextNotice ==
  \/ connection("s1")
  \/ \E h \in Slots : ops < MaxNoticeOps /\ StartNotice(h)
  \/ \E h \in Slots : StepNotice(h)
  \/ \E h \in Slots : StepNoticeFails(h)

SpecNotice == Init /\ [][NextNotice]_vars

(***************************************************************************)
(* Rider earnings: one rider joins, one order is placed with or without a  *)
(* delivery fee, the restaurant accepts it, and the rider claims it over   *)
(* the socket or over REST.                                                *)
(***************************************************************************)
StartEarnings(h) ==
  \/ rider_join_pool_start(h, "s1", "r1", NearLat)
  \/ \E fee \in DeliveryFees : FirstOrder /\ place_start(h, "cod", fee)
  \/ restaurant_accept_order_start(h, "o1")
  \/ rider_accept_order_start(h, "o1", "r1")
  \/ accept_start(h, "o1", "r1")

NextEarnings ==
  \/ connection("s1")
  \/ \E h \in Slots : ops < MaxNoticeOps /\ StartEarnings(h)
  \/ \E h \in Slots : StepNotice(h)

SpecEarnings == Init /\ [][NextEarnings]_vars

(***************************************************************************)
(* The candidate scan: two riders join one metre inside the radius,        *)
(* exactly at the radius, one metre outside it or nearer, and the          *)
(* restaurant accepts an order.                                            *)
(***************************************************************************)
EdgeInLat == RestaurantLat + MAX_DISTANCE_KM * 1000 - 1
EdgeLat == RestaurantLat + MAX_DISTANCE_KM * 1000
EdgeOutLat == RestaurantLat + MAX_DISTANCE_KM * 1000 + 1
ScanLatitudes == {NearLat, EdgeInLat, EdgeLat, EdgeOutLat}

StartScan(h) ==
  \/ \E lat \in ScanLatitudes : rider_join_pool_start(h, "s1", "r1", lat)
  \/ \E lat \in ScanLatitudes : rider_join_pool_start(h, "s2", "r2", lat)
  \/ FirstOrder /\ place_start(h, "cod", 0)
  \/ restaurant_accept_order_start(h, "o1")

StepScan(h) ==
  \/ rider_join_pool_findRider(h)
  \/ place_findRestaurant(h)
  \/ place_save(h)
  \/ place_populate(h)
  \/ restaurant_accept_order_findOrder(h)
  \/ restaurant_accept_order_save(h)
  \/ restaurant_accept_order_notify(h)

NextScan ==
  \/ \E s \in Sockets : connection(s)
  \/ \E h \in Slots : StartScan(h)
  \/ \E h \in Slots : StepScan(h)

SpecScan == Init /\ [][NextScan]_vars

\* the same, and the riders also send location updates that carry no
\* coordinates or no latitude
NextAbsent ==
  \/ NextScan
  \/ \E h \in Slots, u \in Riders, lat \in {Missing, Undefined} :
        rider_location_update(h, u, lat)

SpecAbsent == Init /\ [][NextAbsent]_vars

(***************************************************************************)
(* The rider registry alone: on one connection clients join with or        *)
(* without coordinates and with the id of a rider or of a customer, leave, *)
(* and send locations.                                                     *)
(***************************************************************************)
MaxRegistryOps == 3

JoinIds == {"r1", "r2", Customer}

JoinLatitudes == {NearLat, Undefined, Missing}

NextRegistry ==
  \/ connection("s1")
  \/ disconnect("s1")
  \/ \E u \in Riders : ops < MaxRegistryOps /\ rider_leave_pool("s1", u)
  \/ \E h \in Slots, u \in JoinIds, lat \in JoinLatitudes :
        ops < MaxRegistryOps /\ rider_join_pool_start(h, "s1", u, lat)
  \/ \E h \in Slots : rider_join_pool_findRider(h)
  \/ \E h \in Slots, u \in Riders : rider_location_update(h, u, FarLat)

SpecRegistry == Init /\ [][NextRegistry]_vars

(***************************************************************************)
(* A rider's connection: the rider joins, claims an accepted order, loses  *)
(* the connection and joins again on a new one.                            *)
(***************************************************************************)
StartPool(h) ==
  \/ \E s \in Sockets : rider_join_pool_start(h, s, "r1", NearLat)
  \/ FirstOrder /\ place_start(h, "cod", 0)
  \/ restaurant_accept_order_start(h, "o1")
  \/ activeRidersPool["r1"].present /\ rider_accept_order_start(h, "o1", "r1")

StepPool(h) ==
  \/ rider_join_pool_findRider(h)
  \/ place_findRestaurant(h)
  \/ place_save(h)
  \/ place_populate(h)
  \/ restaurant_accept_order_findOrder(h)
  \/ restaurant_accept_order_save(h)
  \/ restaurant_accept_order_notify(h)
  \/ rider_accept_order_findOrder(h)
  \/ rider_accept_order_findRestaurant(h)
  \/ rider_accept_order_findRider(h)
  \/ rider_accept_order_save(h)

NextPool ==
  \/ \E s \in Sockets : connection(s)
  \/ \E s \in Sockets : disconnect(s)
  \/ \E h \in Slots : StartPool(h)
  \/ \E h \in Slots : StepPool(h)

SpecPool == Init /\ [][NextPool]_vars

(***************************************************************************)
(* A rider who leaves: as SpecPool, and the rider may leave the pool.      *)
(***************************************************************************)
NextLeave ==
  \/ NextPool
  \/ \E s \in Sockets : rider_leave_pool(s, "r1")

SpecLeave == Init /\ [][NextLeave]_vars

(***************************************************************************)
(* Live tracking: a rider joins and claims the accepted order, the order   *)
(* is delivered or cancelled, and the rider keeps sending locations.       *)
(***************************************************************************)
EndStatuses == {"delivered", "cancelled"}

StartTrack(h) ==
  \/ rider_join_pool_start(h, "s1", "r1", NearLat)
  \/ FirstOrder /\ place_start(h, "cod", 0)
  \/ restaurant_accept_order_start(h, "o1")
  \/ rider_accept_order_start(h, "o1", "r1")
  \/ \E st \in EndStatuses : update_order_status_start(h, "o1", st)
  \/ \E st \in EndStatuses : patch_status_start(h, "o1", st)
  \/ verify_delivery_pin_start(h, "o1", NoPin)
  \/ patch_rider_location_start(h, "o1", NearLat)

StepTrack(h) ==
  \/ patch_rider_location_findOrder(h)
  \/ patch_rider_location_save(h)
  \/ rider_join_pool_findRider(h)
  \/ place_findRestaurant(h)
  \/ place_save(h)
  \/ place_populate(h)
  \/ restaurant_accept_order_findOrder(h)
  \/ restaurant_accept_order_save(h)
  \/ restaurant_accept_order_notify(h)
  \/ rider_accept_order_findOrder(h)
  \/ rider_accept_order_findRestaurant(h)
  \/ rider_accept_order_findRider(h)
  \/ rider_accept_order_save(h)
  \/ update_order_status_findOrder(h)
  \/ update_order_status_save(h)
  \/ patch_status_findOrder(h)
  \/ patch_status_findRider(h)
  \/ patch_status_saveRider(h)
  \/ patch_status_save(h)
  \/ verify_delivery_pin_findOrder(h)
  \/ verify_delivery_pin_findRider(h)
  \/ verify_delivery_pin_saveRider(h)
  \/ verify_delivery_pin_save(h)
  \/ verify_delivery_pin_populate(h)

NextTrack ==
  \/ connection("s1")
  \/ \E h \in Slots : StartTrack(h)
  \/ \E h \in Slots : StepTrack(h)
  \/ \E h \in Slots : rider_location_update(h, "r1", FarLat)

SpecTrack == Init /\ [][NextTrack]_vars

(***************************************************************************)
(* Delivery: the order is placed and bound to a rider, and the three       *)
(* operations that can mark it delivered are sent, possibly more than once *)
(***************************************************************************)
StartDelivery(h) ==
  \/ FirstOrder /\ place_start(h, "cod", 0)
  \/ accept_start(h, "o1", "r1")
  \/ patch_status_start(h, "o1", "delivered")
  \/ update_order_status_start(h, "o1", "delivered")
  \/ verify_delivery_pin_start(h, "o1", NoPin)

StepDelivery(h) ==
  \/ place_findRestaurant(h)
  \/ place_save(h)
  \/ place_populate(h)
  \/ accept_findOrder(h)
  \/ accept_findRider(h)
  \/ accept_save(h)
  \/ patch_status_findOrder(h)
  \/ patch_status_findRider(h)
  \/ patch_status_saveRider(h)
  \/ patch_status_save(h)
  \/ update_order_status_findOrder(h)
  \/ update_order_status_save(h)
  \/ verify_delivery_pin_findOrder(h)
  \/ verify_delivery_pin_findRider(h)
  \/ verify_delivery_pin_saveRider(h)
  \/ verify_delivery_pin_save(h)
  \/ verify_delivery_pin_populate(h)

NextDelivery ==
  \/ connection("s1")
  \/ \E h \in Slots : StartDelivery(h)
  \/ \E h \in Slots : StepDelivery(h)

SpecDelivery == Init /\ [][NextDelivery]_vars

(***************************************************************************)
(* Deliveries over days: one order is placed, accepted by the restaurant   *)
(* and claimed over the socket or over REST; delivered events of the order *)
(* arrive over REST, the rider's profile is updated, and the calendar day  *)
(* changes between them.                                                   *)
(***************************************************************************)
ProfileRoles == {None, "rider", "customer", "manager"}
ProfileDetails == {Missing, Undefined}

StartDaily(h) ==
  \/ FirstOrder /\ place_start(h, "cod", 0)
  \/ restaurant_accept_order_start(h, "o1")
  \/ rider_accept_order_start(h, "o1", "r1")
  \/ accept_start(h, "o1", "r1")
  \/ patch_status_start(h, "o1", "delivered")
  \/ verify_delivery_pin_start(h, "o1", NoPin)
  \/ \E role \in ProfileRoles, riderDetails \in ProfileDetails :
       update_profile_start(h, "r1", role, riderDetails)

StepDaily(h) ==
  \/ place_findRestaurant(h)
  \/ place_save(h)
  \/ place_populate(h)
  \/ restaurant_accept_order_findOrder(h)
  \/ restaurant_accept_order_save(h)
  \/ restaurant_accept_order_notify(h)
  \/ rider_accept_order_findOrder(h)
  \/ rider_accept_order_findRestaurant(h)
  \/ rider_accept_order_findRider(h)
  \/ rider_accept_order_save(h)
  \/ accept_findOrder(h)
  \/ accept_findRider(h)
  \/ accept_save(h)
  \/ patch_status_findOrder(h)
  \/ patch_status_findRider(h)
  \/ patch_status_saveRider(h)
  \/ patch_status_save(h)
  \/ verify_delivery_pin_findOrder(h)
  \/ verify_delivery_pin_findRider(h)
  \/ verify_delivery_pin_saveRider(h)
  \/ verify_delivery_pin_save(h)
  \/ verify_delivery_pin_populate(h)
  \/ update_profile_findByIdAndUpdate(h)

NextDaily ==
  \/ connection("s1")
  \/ \E h \in Slots : StartDaily(h)
  \/ \E h \in Slots : StepDaily(h)
  \/ Midnight

SpecDaily == Init /\ [][NextDaily]_vars

(***************************************************************************)
(* Payment before placement: the client creates a payment, verifies it     *)
(* until it has succeeded, and places or confirms orders.                  *)
(***************************************************************************)
StartPayment(h) ==
  \/ \E m \in {"cod", "online"} : place_start(h, m, 0)
  \/ \E o \in Orders : confirm_start(h, o)
  \/ pending_start(h)

StepPayment(h) ==
  \/ pending_findRestaurant(h)
  \/ pending_save(h)
  \/ place_findPayment(h)
  \/ place_findRestaurant(h)
  \/ place_findPayment2(h)
  \/ place_save(h)
  \/ place_populate(h)
  \/ confirm_findOrder(h)
  \/ confirm_findPayment(h)
  \/ confirm_save(h)
  \/ confirm_populate(h)

NextPayment ==
  \/ \E h \in Slots : payment_create_order_start(h)
  \/ \E h \in Slots, b \in BOOLEAN : payment_verify_start(h, b)
  \/ \E h \in Slots : payment_create_order_create(h)
  \/ \E h \in Slots : payment_create_order_save(h)
  \/ \E h \in Slots : payment_verify_findPayment(h)
  \/ \E h \in Slots : payment_verify_save(h)
  \/ \E h \in Slots : ops < MaxLifecycleOps /\ StartPayment(h)
  \/ \E h \in Slots : StepPayment(h)

SpecPayment == Init /\ [][NextPayment]_vars

(***************************************************************************)
(* Properties of the claim operations, under SpecClaim                     *)
(***************************************************************************)
\* the events published in this step
Published == (events'.once \ events.once) \cup (events'.twice \ events.twice)

ClaimOps == {"rider_accept_order", "accept"}

\* the riders whom rider_accept_order told that their claim of o succeeded
Confirmed(o) ==
  {u \in Riders :
     Ev("socket", u, "order_accepted_confirmation", o, None) \in events.once}

\* C1: of the riders who claim one open order with rider_accept_order, at
\* most one is told the claim succeeded; every other rider is rejected.
C1_OneClaimWins ==
  \A o \in Orders : Cardinality(Confirmed(o)) <= 1

\* C2: a claim goes past its availability check only when the order it
\* loaded was in the status open to riders and had no rider; any other
\* claim is rejected there and writes nothing.
C2_UnavailableRejected ==
  \A h \in Slots :
    (handlers[h].op \in ClaimOps /\ handlers[h].pc # "findOrder")
      => (handlers[h].docStatus = OpenStatus /\ handlers[h].docRider = None)

\* C3: order_accepted is published at most once for an order.
C3_AcceptedOnce ==
  \A o \in Orders :
    Ev("order", o, "order_accepted", o, "rider_assigned") \notin events.twice

\* C9: an order is bound only to a rider who has a record in the
\* active-rider registry when the binding is written.
C9_BoundRiderActive ==
  [][\A o \in Orders :
       (orders'[o].rider # orders[o].rider /\ orders'[o].rider \in Riders)
         => activeRidersPool[orders'[o].rider].present]_vars

(***************************************************************************)
(* Properties of the order lifecycle, under Spec                           *)
(***************************************************************************)
\* the chain of the lifecycle; 'accepted' is the older server's name of the
\* status in which the order waits for a rider
Chain == << {"pending_payment"}, {"pending"}, {"awaiting_rider", "accepted"},
            {"rider_assigned"}, {"preparing"}, {"ready"}, {"picked_up"},
            {"on_the_way"}, {"delivered"} >>

Terminal == {"delivered", "rejected", "auto_rejected", "cancelled"}

Rank(s) == CHOOSE i \in 1..Len(Chain) : s \in Chain[i]

\* a transition of the graph: forward along the chain, or from a status
\* that is not terminal to a terminal branch
Forward(s, t) ==
  /\ s \notin Terminal
  /\ \/ t \in {"rejected", "auto_rejected", "cancelled"}
     \/ Rank(s) < Rank(t)

\* C4: every change of an order's durable status is a transition of the
\* graph: forward along the chain or to a terminal branch, never backward.
C4_ForwardOnly ==
  [][\A o \in Orders :
       (orders[o].status # None /\ orders'[o].status # orders[o].status)
         => Forward(orders[o].status, orders'[o].status)]_vars

\* C5: once the durable status is delivered, rejected, auto_rejected or
\* cancelled, no operation changes it again.
C5_TerminalStays ==
  [][\A o \in Orders :
       orders[o].status \in Terminal
         => orders'[o].status = orders[o].status]_vars

\* C8: when no operation is in progress, an order whose durable status is
\* terminal is neither in activeOrdersPool nor in a rider's activeOrders.
C8_TerminalUnregistered ==
  (\A h \in Slots : handlers[h].op = "idle")
    => \A o \in Orders :
         orders[o].status \in Terminal
           => /\ ~activeOrdersPool[o].present
              /\ \A r \in Riders :
                   \A k \in 1..Len(activeRidersPool[r].activeOrders) :
                     activeRidersPool[r].activeOrders[k] # o

(***************************************************************************)
(* Properties of the sweeper, under SpecSweep and SpecExpiry                *)
(***************************************************************************)
\* C6: an order on which the restaurant has acted (accepted, so that it
\* waits for a rider, or rejected) is never set to auto_rejected.
C6_ActedNeverAutoRejected ==
  [][\A o \in Orders :
       orders[o].status \in {"awaiting_rider", "accepted", "rejected"}
         => orders'[o].status # "auto_rejected"]_vars

AutoRejectedEvent(o) == Ev("order", o, "order_status_changed", o, "auto_rejected")

\* C7: with nobody acting on them, every pending order is eventually
\* auto_rejected; an order becomes auto_rejected only
\* when it is older than the deadline, and in that step it leaves
\* activeOrdersPool and the auto_rejected status change is published on its
\* topic.
C7_AutoExpiry ==
  /\ \A o \in Orders :
       (orders[o].status = "pending") ~> (orders[o].status = "auto_rejected")
  /\ [][\A o \in Orders :
          (orders'[o].status = "auto_rejected" /\ orders[o].status # "auto_rejected")
            => /\ expired[o]
               /\ ~activeOrdersPool'[o].present
               /\ AutoRejectedEvent(o) \in events'.once]_vars

\* an overdue order was auto-rejected while a younger one is still pending
C7_Witness ==
  \E o, y \in Orders :
    /\ orders[o].status = "auto_rejected" /\ expired[o]
    /\ ~activeOrdersPool[o].present
    /\ AutoRejectedEvent(o) \in events.once
    /\ orders[y].status = "pending" /\ ~expired[y]
    /\ \A w \in Sweeps : sweeper[w].pc = "idle"

\* this step is the one in which the claim of slot h publishes its notices:
\* the step of the durable write, or in the socket claim of src/server.js
\* the step after the User.findById that follows the write
ClaimPublishes(h) ==
  /\ handlers[h].op \in ClaimOps
  /\ handlers[h].pc = IF handlers[h].op = "rider_accept_order" /\ entry = "server"
                        THEN "findRider" ELSE "save"
  /\ handlers'[h].op = "idle"

OrderTaken(r, o) == Ev("rider", r, "order_taken", o, None)

\* C24: a successful claim publishes order_taken to every other rider of
\* the registry and not to the rider who claimed.
C24_TakenToOthersOnly ==
  [][\A h \in Slots :
       ClaimPublishes(h) =>
         LET u == handlers[h].u
             o == handlers[h].o
         IN /\ \A r \in Riders \ {u} :
                 activeRidersPool[r].present => OrderTaken(r, o) \in events'.once
            /\ OrderTaken(u, o) \notin Published]_vars

\* the failure that the caller of a claim of order o by rider u is sent
ClaimFailed(o, u) ==
  {Ev("socket", u, "order_accept_error", o, "Failed to accept order"),
   Ev("http", u, "accept", o, "500")}

\* this step ends the claim of slot h at its durable write, which the store
\* has rejected
ClaimWriteFails(h) ==
  /\ handlers[h].op \in ClaimOps
  /\ handlers[h].pc = "save"
  /\ handlers'[h].op = "idle"
  /\ Published \cap ClaimFailed(handlers[h].o, handlers[h].u) # {}

\* an order_taken notice for an order is out only once the durable order is
\* bound to a rider
TakenAfterWrite ==
  \A o \in Orders, r \in Riders :
    OrderTaken(r, o) \in events.once => orders[o].rider \in Riders

\* C25: an order_taken notice for an order is published only once the
\* durable order is bound to a rider: in the step of that write or after it.
\* A claim whose durable write is rejected leaves the order as it was and
\* publishes no order_taken notice.
C25_WriteBeforeTaken ==
  /\ []TakenAfterWrite
  /\ [][\A h \in Slots : ClaimWriteFails(h) =>
          /\ orders' = orders
          /\ \A e \in Published : e.name # "order_taken"]_vars

\* the write of a claim was rejected and its caller told so; a later claim
\* by that rider has told another rider of the registry that the order is
\* taken
C25_Witness ==
  \E o \in Orders, r \in Riders :
    /\ OrderTaken(r, o) \in events.once
    /\ activeRidersPool[r].present
    /\ orders[o].rider \in Riders \ {r}
    /\ orders[o].status = "rider_assigned"
    /\ ClaimFailed(o, orders[o].rider) \cap events.once # {}

\* this step is the durable write of a PIN verification of order o that was
\* sent with a PIN
SavesWithPin(op, o) ==
  \E h \in Slots :
    /\ At(h, op, "save")
    /\ handlers[h].o = o
    /\ handlers[h].st # NoPin

\* C13: the durable status of an order becomes picked_up only in a pickup
\* PIN verification that supplied a PIN, and delivered only in a delivery
\* PIN verification that supplied a PIN.
C13_PinGates ==
  [][\A o \in Orders :
       orders'[o].status # orders[o].status =>
         /\ orders'[o].status = "picked_up" => SavesWithPin("verify_pickup_pin", o)
         /\ orders'[o].status = "delivered" => SavesWithPin("verify_delivery_pin", o)]_vars

\* this step is the rejection of the durable write of a status by slot h
WriteFails(h) ==
  /\ handlers[h].pc = "save"
  /\ handlers[h].op \in {"restaurant_accept_order", "update_order_status"}
  /\ ~ValidStatus(handlers[h].setStatus)
  /\ handlers'[h].op = "idle"

\* an event that tells a caller that the operation failed
IsFailure(e) ==
  \/ e.name \in {"error", "order_accept_error"}
  \/ e.topic = "http" /\ e.st = "500"

\* C16: when the durable write of a transition fails, the stores and the
\* registries stay as they were, nothing but a failure is published, and a
\* failure is sent to the caller.
C16_FailedWriteAborts ==
  [][\A h \in Slots :
       WriteFails(h) =>
         /\ orders' = orders
         /\ riderStats' = riderStats
         /\ activeOrdersPool' = activeOrdersPool
         /\ activeRidersPool' = activeRidersPool
         /\ \A e \in Published : IsFailure(e)
         /\ \E e \in Published : IsFailure(e)]_vars

\* every operation that was started has run to its end
NoHandlerRuns == \A h \in Slots : handlers[h].op = "idle"

\* C17: when every operation has run to its end, the projection of an order
\* in the order registry has the status and the rider of the durable order.
C17_ProjectionAgrees ==
  \A o \in Orders :
    (NoHandlerRuns /\ activeOrdersPool[o].present) =>
      /\ activeOrdersPool[o].status = orders[o].status
      /\ activeOrdersPool[o].riderId = orders[o].rider

\* C18: an order whose durable status is pending has a projection with
\* status pending in the order registry.
C18_PendingHasProjection ==
  \A o \in Orders :
    orders[o].status = "pending" =>
      /\ activeOrdersPool[o].present
      /\ activeOrdersPool[o].status = "pending"

\* the PIN stored on the order that operation op compares with
StoredPin(op, o) ==
  IF op = "verify_pickup_pin" THEN pickupPin(orders[o]) ELSE deliveryPin(orders[o])

\* C21: a PIN verification of an existing order goes on to the status write
\* only when a PIN was supplied and equals the PIN stored on the order; a
\* supplied PIN that differs is refused and changes nothing.
C21_PinMustMatch ==
  [][\A h \in Slots :
       LET hr == handlers[h] IN
       ( /\ hr.op \in {"verify_pickup_pin", "verify_delivery_pin"}
         /\ hr.pc = "findOrder"
         /\ handlers'[h] # hr
         /\ orders[hr.o].status # None )
       => IF hr.st # NoPin /\ StoredPin(hr.op, hr.o) = hr.st
            THEN handlers'[h].op = hr.op
            ELSE /\ handlers'[h].op = "idle"
                 /\ orders' = orders
                 /\ riderStats' = riderStats
                 /\ activeOrdersPool' = activeOrdersPool
                 /\ activeRidersPool' = activeRidersPool
                 /\ \A e \in Published : e.topic = "http" /\ e.st = "400"]_vars

\* this step publishes an event that carries status st on the topic of order o
StatusPublished(o, st) ==
  \E e \in Published : e.topic = "order" /\ e.id = o /\ e.st = st

\* the handler record is at the await that follows its durable write:
\* order.populate, or in src/server.js the User.findById of the claim
AfterWrite(hr) ==
  \/ hr.pc = "populate"
  \/ entry = "server" /\ hr.op = "rider_accept_order" /\ hr.pc = "findRider"

\* the operation that writes order o in this step publishes after its next
\* await
Deferred(o) ==
  \E h \in Slots :
    /\ handlers[h].o = o
    /\ handlers[h].pc = "save"
    /\ AfterWrite(handlers'[h])

\* C22: an operation that changes the durable status of an order publishes
\* the new status on the topic of the order, in the step of the write or,
\* when it awaits once more first, in the step after that await.
C22_StatusChangePublished ==
  [][/\ \A o \in Orders :
          ( /\ orders[o].status # None
            /\ orders'[o].status # orders[o].status
            /\ ~Deferred(o) )
          => StatusPublished(o, orders'[o].status)
     /\ \A h \in Slots :
          ( /\ AfterWrite(handlers[h])
            /\ handlers[h].op # "place"
            /\ handlers'[h].op = "idle"
            /\ handlers[h].setStatus # handlers[h].docStatus )
          => StatusPublished(handlers[h].o, handlers[h].setStatus)]_vars

(***************************************************************************)
(* Properties of delivery, under SpecDelivery                              *)
(***************************************************************************)
\* this step is the write of the rider's statistics by an operation that
\* found the order already delivered
CountsAgain(r) ==
  \E h \in Slots :
    /\ handlers[h].pc = "saveRider"
    /\ handlers[h].docRider = r
    /\ handlers[h].docStatus = "delivered"
    /\ handlers'[h].pc = "save"

\* C14: a delivered event for an order that is already delivered changes
\* no rider statistics: the delivery is not counted a second time.
C14_DeliveredCountedOnce ==
  [][\A r \in Riders : CountsAgain(r) => riderStats'[r] = riderStats[r]]_vars

\* the operation of slot h has added one delivery and the riderEarnings of
\* the order it loaded to the statistics it read of the rider
Counted(h) ==
  LET hr == handlers[h] IN
  /\ hr.setStats.totalDeliveries = hr.docStats.totalDeliveries + 1
  /\ hr.setStats.totalEarnings = hr.docStats.totalEarnings + hr.docEarnings
  /\ hr.setStats.todayEarnings >= hr.docEarnings

\* C15: an operation that loaded an order with a bound rider and writes the
\* status delivered over another status has counted the delivery in the
\* rider's statistics.
C15_DeliveryCounted ==
  [][\A h \in Slots :
       LET o == handlers[h].o IN
       ( /\ handlers[h].pc = "save"
         /\ handlers'[h].pc # "save"
         /\ handlers[h].docRider \in Riders
         /\ o \in Orders
         /\ orders[o].status # "delivered"
         /\ orders'[o].status = "delivered" )
       => Counted(h)]_vars

(***************************************************************************)
(* Properties of the sweeper with a faulty document, under SpecFault       *)
(***************************************************************************)
\* C23: when the save of one overdue pending order fails in every run of
\* the sweeper, every other pending order is still eventually auto_rejected.
C23_OthersStillExpire ==
  \A o \in Orders \ {FailingOrder} :
    (orders[o].status = "pending") ~> (orders[o].status = "auto_rejected")

(***************************************************************************)
(* Properties of the rider registry, under SpecPool                        *)
(***************************************************************************)
\* rider_join_pool writes the record of rider r in this step
Joins(r) ==
  \E h \in Slots :
    /\ At(h, "rider_join_pool", "findRider")
    /\ handlers[h].u = r
    /\ handlers'[h].op = "idle"
    /\ activeRidersPool'[r].present

\* C10: a join of a rider who is in the pool keeps the record's
\* activeOrders; a join after a disconnect gives the record the activeOrders
\* it had when the rider disconnected.
C10_RejoinKeepsOrders ==
  [][\A r \in Riders :
       Joins(r) =>
         activeRidersPool'[r].activeOrders =
           (IF activeRidersPool[r].present
              THEN activeRidersPool[r].activeOrders ELSE held[r])]_vars

\* the order is accepted by the restaurant and waits for a rider, inside the
\* expiry window ('accepted' is the name of that stage in src/server.js)
AwaitsRider(o) ==
  /\ orders[o].status \in {"awaiting_rider", "accepted"}
  /\ orders[o].rider = None
  /\ ~expired[o]

\* C12: once the join of a rider within the radius of the restaurant of an
\* order that awaits a rider has run to its end, the rider has been sent
\* exactly one new_order_available notice of that order.
C12_JoinerNotifiedOnce ==
  \A r \in Riders, o \in Orders :
    ( /\ NoHandlerRuns
      /\ activeRidersPool[r].present
      /\ WithinRange(activeRidersPool[r].coordinates, RestaurantLat)
      /\ AwaitsRider(o) )
    => /\ AvailableNotice(r, o, orders[o].deliveryFee) \in events.once
       /\ AvailableNotice(r, o, orders[o].deliveryFee) \notin events.twice

\* C19: the durable write of restaurant_accept_order for an order it loaded
\* as pending is accepted by the order store: the durable status becomes
\* awaiting_rider and the handler goes on to the scan of the rider registry.
C19_AcceptStoresAwaitingRider ==
  [][\A h \in Slots :
       ( /\ At(h, "restaurant_accept_order", "save")
         /\ handlers[h].docStatus = "pending"
         /\ handlers'[h].pc # "save" )
       => /\ orders'[handlers[h].o].status = "awaiting_rider"
          /\ handlers'[h].pc = "notify"]_vars

(***************************************************************************)
(* Properties of payment, under SpecPayment                                *)
(***************************************************************************)
\* C20: an order paid online becomes pending only in a step taken while the
\* payment record has status SUCCESS; an order paid in cash is pending as
\* soon as it is stored.
C20_PendingNeedsPayment ==
  [][\A o \in Orders :
       orders'[o].status # orders[o].status =>
         /\ ( orders'[o].status = "pending" /\ orders'[o].paymentMethod = "online" )
              => payment = "SUCCESS"
         /\ ( orders[o].status = None /\ orders'[o].paymentMethod = "cod" )
              => orders'[o].status = "pending"]_vars

(***************************************************************************)
(* Properties of the candidate scan, under SpecScan and SpecAbsent         *)
(***************************************************************************)
Radius == 1000000

NewOrderAvailable(r, o) == AvailableNotice(r, o, orders[o].deliveryFee)

\* this step is the scan of the rider registry for the order of slot h
Scans(h) ==
  /\ At(h, "restaurant_accept_order", "notify")
  /\ handlers'[h].op = "idle"

\* C26: the scan notifies every rider of the registry whose distance to the
\* restaurant is at most the radius of 1000 km, a rider exactly at the
\* radius included, and no rider farther away.
C26_ScanWithinRadius ==
  [][\A h \in Slots : Scans(h) =>
       \A r \in Riders : activeRidersPool[r].present =>
         IF calculateDistance(RestaurantLat, activeRidersPool[r].coordinates) <= Radius
           THEN NewOrderAvailable(r, handlers[h].o) \in events'.once
           ELSE NewOrderAvailable(r, handlers[h].o) \notin Published]_vars

\* a rider stands at distance d of the restaurant, and the scans for order
\* o have notified the rider (told) or not
Stands(r, d, o, told) ==
  /\ activeRidersPool[r].present
  /\ calculateDistance(RestaurantLat, activeRidersPool[r].coordinates) = d
  /\ (NewOrderAvailable(r, o) \in events.once) = told

\* a scan has notified a rider exactly at the radius and left out a rider one
\* metre outside it
C26_Witness ==
  \E r, f \in Riders, o \in Orders :
    /\ orders[o].status = "accepted"
    /\ NoHandlerRuns
    /\ Stands(r, Radius, o, TRUE)
    /\ Stands(f, Radius + 1, o, FALSE)

\* C27: the scan leaves out a rider of the registry whose coordinates are
\* absent and still notifies the other riders within the radius.
C27_AbsentCoordinatesSkipped ==
  [][\A h \in Slots : Scans(h) =>
       \A r \in Riders : activeRidersPool[r].present =>
         IF activeRidersPool[r].coordinates \in {Missing, Undefined}
           THEN NewOrderAvailable(r, handlers[h].o) \notin Published
           ELSE calculateDistance(RestaurantLat, activeRidersPool[r].coordinates)
                  <= Radius
                => NewOrderAvailable(r, handlers[h].o) \in events'.once]_vars

(***************************************************************************)
(* Properties of the rider earnings, under SpecEarnings                    *)
(***************************************************************************)
\* the delivery fee when one was charged, else 8 per km of 5.0 km
EarningsRule(o) ==
  IF orders[o].deliveryFee > 0 THEN orders[o].deliveryFee ELSE 40

\* every availability notice of order o carries the earnings of the rule
NoticesFollowRule(o) ==
  \A e \in events.once \cup events.twice :
    (e.name = "new_order_available" /\ e.o = o)
      => e.st = ToString(EarningsRule(o))

\* C28: riderEarnings is the delivery fee of the order when it charged one
\* and round(8 x 5.0) = 40 otherwise, in every availability notice and in
\* the durable order once a rider has claimed it.
C28_EarningsFollowRule ==
  \A o \in Orders :
    /\ NoticesFollowRule(o)
    /\ orders[o].rider \in Riders => orders[o].riderEarnings = EarningsRule(o)

(***************************************************************************)
(* Properties of the daily earnings, under SpecDaily                       *)
(***************************************************************************)
\* this step is the write of the rider's statistics by the delivery of
\* slot h
WritesStats(h) ==
  /\ handlers[h].pc = "saveRider"
  /\ handlers'[h].pc = "save"

\* C29: a delivery that earned e adds e to the rider's totalEarnings; it
\* adds e to todayEarnings when the rider's last reset was on the calendar
\* day of the delivery, and leaves todayEarnings = e alone when it was on
\* another day.  The day of the delivery is the day its handler read from
\* the clock when it updated the statistics, also when the write of the
\* rider ends after midnight.
C29_DailyReset ==
  [][\A h \in Slots : WritesStats(h) =>
       LET r == handlers[h].docRider
           e == handlers[h].docEarnings
       IN /\ riderStats'[r].totalEarnings = riderStats[r].totalEarnings + e
          /\ riderStats'[r].todayEarnings =
               IF riderStats[r].lastEarningsReset = handlers[h].today
                 THEN riderStats[r].todayEarnings + e
                 ELSE e]_vars

(***************************************************************************)
(* Properties of live tracking, under SpecTrack                            *)
(***************************************************************************)
\* this step publishes rider_location_live on the topic of order o
Broadcasts(o) ==
  \E lat \in PayloadLatitudes :
    \/ LocationEvent(o, lat) \in events'.once \ events.once
    \/ LocationEvent(o, lat) \in events'.twice \ events.twice

\* C11: a location update of a rider is broadcast on the topic of an order
\* only while the order is bound to a rider and is neither delivered nor
\* cancelled.
C11_NoBroadcastAfterEnd ==
  [][\A o \in Orders :
       Broadcasts(o) => /\ orders[o].rider \in Riders
                        /\ orders[o].status \notin {"delivered", "cancelled"}]_vars


\* this step is a location update of rider u, present in the registry, with
\* coordinates other than the stored ones
UpdatesLocation(u) ==
  /\ activeRidersPool[u].present
  /\ activeRidersPool'[u].present
  /\ activeRidersPool'[u].coordinates \in PayloadLatitudes \ {Missing, Undefined}
  /\ activeRidersPool'[u].coordinates # activeRidersPool[u].coordinates
  /\ activeRidersPool'[u].activeOrders = activeRidersPool[u].activeOrders
  /\ sockets' = sockets
  /\ \A h \in Slots : handlers[h].op = handlers'[h].op

\* C30: a location update of a rider of the registry stores the coordinates
\* in the rider's record, writes them to the durable order of every id in
\* the rider's activeOrders and publishes rider_location_live on the topic
\* of each of these orders; it publishes on the topic of no other order and
\* changes the record of no other rider.
C30_LocationWrittenThrough ==
  [][\A u \in Riders : UpdatesLocation(u) =>
       LET lat == activeRidersPool'[u].coordinates
           ids == SeqToSet(activeRidersPool[u].activeOrders)
       IN /\ \A o \in ids :
               /\ orders'[o].riderLocation = lat
               /\ LocationEvent(o, lat) \in Published
          /\ \A o \in Orders \ ids : ~Broadcasts(o)
          /\ \A r \in Riders \ {u} :
               activeRidersPool'[r] = activeRidersPool[r]]_vars


(***************************************************************************)
(* Properties of the rider registry, under SpecLeave and SpecRegistry      *)
(***************************************************************************)
\* this step removes the record of rider u from the registry
Leaves(u) ==
  /\ activeRidersPool[u].present
  /\ ~activeRidersPool'[u].present

\* C31: a step that removes a rider's record from the registry (leave or
\* disconnect) changes no durable order, no projection and no other
\* rider's record: the rider's orders stay bound and are not cancelled.
C31_LeaveOnlyRemovesRecord ==
  [][\A u \in Riders : Leaves(u) =>
       /\ orders' = orders
       /\ activeOrdersPool' = activeOrdersPool
       /\ \A r \in Riders \ {u} : activeRidersPool'[r] = activeRidersPool[r]]_vars

\* the rider has left the pool with an order bound to them
C31_Witness ==
  \E u \in Riders, o \in Orders :
    /\ Ev("socket", u, "left_pool", None, None) \in events.once
    /\ ~activeRidersPool[u].present
    /\ orders[o].rider = u
    /\ orders[o].status = "rider_assigned"
    /\ activeOrdersPool[o].present
    /\ activeOrdersPool[o].riderId = u


\* this step is a location update: under SpecRegistry no other step leaves
\* the handlers, the connections and the count of requests as they are
LocationUpdateStep ==
  /\ handlers' = handlers
  /\ sockets' = sockets
  /\ ops' = ops

\* this step is the location update of part_001 for rider u that found no
\* record
UpdateOfAbsent(u) == RiderNotFound(u) \in Published

\* C32: a location update for a rider without a record in the registry
\* creates and changes no registry entry, writes no durable order and
\* publishes no location event.
C32_AbsentUpdateIsNoOp ==
  [][\A u \in Riders :
       /\ (LocationUpdateStep /\ ~activeRidersPool[u].present)
            => activeRidersPool'[u] = activeRidersPool[u]
       /\ UpdateOfAbsent(u)
            => /\ activeRidersPool' = activeRidersPool
               /\ activeOrdersPool' = activeOrdersPool
               /\ orders' = orders
               /\ Published = {RiderNotFound(u)}]_vars

\* a location update arrived for a rider who had left, and the registry
\* holds no record of that rider
C32_Witness ==
  \E u \in Riders :
    /\ RiderNotFound(u) \in events.once
    /\ Ev("socket", u, "left_pool", None, None) \in events.once
    /\ activeRidersPool[u] = NoRiderData


\* this step is the answer of the join of slot h, whose riderId is the id
\* of no stored rider
RefusesJoin(h) ==
  /\ At(h, "rider_join_pool", "findRider")
  /\ handlers[h].u \notin Riders
  /\ handlers'[h].op = "idle"

\* socket.emit('error', {message: 'Invalid rider'}); an event sent twice
\* before is not told from one sent three times
InvalidRider(u) == Ev("socket", u, "error", None, "Invalid rider")

AnswersJoin(h) ==
  /\ At(h, "rider_join_pool", "findRider")
  /\ handlers[h].u \in Riders
  /\ ~At(h, "rider_join_pool", "findRider")'

\* socket.emit('error', {message: 'Location required to join rider pool...'})
LocationRequired(u) == Ev("socket", u, "error", None, "Location required")

\* C34: a join for which neither the payload nor the stored user gives
\* coordinates is answered with the error Location required and leaves the
\* registry unchanged, and the record a join writes has a usable latitude.
C34_JoinNeedsLocation ==
  [][\A h \in Slots : AnswersJoin(h) =>
       LET u == handlers[h].u IN
       IF Falsy(handlers[h].lat) /\ Falsy(StoredLatitude(u))
         THEN /\ LocationRequired(u) \in Published \cup events.twice
              /\ activeRidersPool' = activeRidersPool
         ELSE activeRidersPool'[u].present
                => ~Falsy(activeRidersPool'[u].coordinates)]_vars


(***************************************************************************)
(* Properties of overlapping sweeps, under SpecSweep                       *)
(***************************************************************************)
\* this step is the save of the current document by sweeper run w
SweeperWrites(w) ==
  /\ sweeper[w].pc = "save"
  /\ sweeper'[w] # sweeper[w]

\* C35: an order is auto-rejected at most once: a sweeper run writes
\* auto_rejected and publishes the auto_rejected status event only for an
\* order that was not auto-rejected before.
C35_AutoRejectedOnce ==
  [][\A w \in Sweeps : SweeperWrites(w) =>
       LET o == Head(sweeper[w].todo) IN
       /\ orders[o].status # "auto_rejected"
       /\ AutoRejectedEvent(o) \notin events.once]_vars


(***************************************************************************)
(* Properties of status and rider binding, under Spec                      *)
(***************************************************************************)
\* the statuses of an order no rider has claimed yet
UnclaimedStatuses == {"pending_payment", "pending", "awaiting_rider"}

\* C36: status and rider binding are coupled: a durable order in
\* pending_payment, pending or awaiting_rider has no rider bound, and a
\* projection in one of these statuses has no riderId.
C36_StatusRiderCoupled ==
  \A o \in Orders :
    /\ orders[o].status \in UnclaimedStatuses => orders[o].rider = None
    /\ (activeOrdersPool[o].present
         /\ activeOrdersPool[o].status \in UnclaimedStatuses)
          => activeOrdersPool[o].riderId = None


(***************************************************************************)
(* Properties of the riders' order lists, under SpecClaim                  *)
(***************************************************************************)
\* C37: every order id in the activeOrders of a rider of the registry is an
\* order whose durable rider is that rider; no id is in the lists of two
\* riders, and none is twice in one list.
C37_ActiveOrdersMatchBinding ==
  \A r \in Riders : activeRidersPool[r].present =>
    LET list == activeRidersPool[r].activeOrders IN
    /\ \A i \in 1..Len(list) : orders[list[i]].rider = r
    /\ \A i, j \in 1..Len(list) : list[i] = list[j] => i = j
    /\ \A q \in Riders \ {r} : activeRidersPool[q].present =>
          SeqToSet(list) \cap SeqToSet(activeRidersPool[q].activeOrders) = {}


(***************************************************************************)
(* Properties of connections, under SpecPool                               *)
(***************************************************************************)
\* this step closes a connection other than the one the record of rider r
\* was written on
OtherConnectionCloses(r) ==
  \E s \in Sockets :
    /\ sockets[s].state = "open"
    /\ sockets'[s].state = "closed"
    /\ activeRidersPool[r].present
    /\ activeRidersPool[r].socketId # s
    /\ sockets[activeRidersPool[r].socketId].state = "open"

\* C38: the disconnect of another connection than the one a rider joined
\* on last leaves the rider's record in the registry.
C38_OldConnectionKeepsRecord ==
  [][\A r \in Riders : OtherConnectionCloses(r) =>
       activeRidersPool'[r] = activeRidersPool[r]]_vars

(***************************************************************************)
(* The chatbot router: routes/chatbot.js and its later version part_002.   *)
(* A request runs from one wait to the next: the import and the query of   *)
(* /detect-order-intent, each fetch, and the reading of the body of each   *)
(* response; other requests run in between and share currentKeyIndex.      *)
(***************************************************************************)
\* what one fetch of the upstream API comes to: a response with its HTTP
\* status, or a rejected fetch whose message quotes a code or not
Upstream == {"200", "429", "403", "400", "500", "network", "network 429"}

\* what response.json() and the parsing after it come to
JsonBodies == {"ok", "malformed", "malformed 429"}

\* what response.text() comes to on an error status: a body that quotes a
\* code or not, or a body that cannot be read
TextBodies == {"plain", "quotes 429", "unreadable"}

\* const errorText = await response.text()
errorText(body) ==
  IF body = "quotes 429"
  THEN <<"quota exceeded, see error", "429">>
  ELSE <<"internal error">>

\* error.message, as the words that includes() can find in it; the /chat
\* route of part_002 appends the body of the response
ApiError(route, status, text) ==
  IF chatbotRoutes = "part_002" /\ route = "chat"
  THEN <<"Gemini API error:", status, "-">> \o text
  ELSE <<"Gemini API error:", status>>
AllExhausted(status) == <<"All API keys exhausted:", status>>
NoKeyAvailable == <<"No Gemini API key available">>
Rejected(outcome) ==
  CASE outcome = "network" -> <<"fetch failed">>
    [] outcome = "network 429" -> <<"request to", "429", "failed">>
    [] outcome = "malformed 429" -> <<"Unexpected token at position", "429">>
    [] outcome = "unreadable" -> <<"terminated">>
    [] OTHER -> <<"Unexpected token">>

includes(message, code) == \E i \in 1..Len(message) : message[i] = code

\* the statuses on which the try block moves to the next key, and the
\* codes the catch block looks for in the message
RateCodes(route) ==
  IF chatbotRoutes = "part_002" /\ route = "chat"
  THEN {"429", "403", "400"}
  ELSE {"429", "403"}

RateMessage(route, message) == \E code \in RateCodes(route) : includes(message, code)

\* the routes that read the body of an error response before they go on
ReadsErrorText(route) ==
  chatbotRoutes = "part_002" /\ route \in {"detect-order-intent", "chat"}

\* const maxAttempts = GEMINI_API_KEYS.length * 2 (part_002), .length (chatbot.js)
maxAttempts ==
  IF chatbotRoutes = "part_002"
  THEN Len(GEMINI_API_KEYS) * 2
  ELSE Len(GEMINI_API_KEYS)

\* getGeminiApiUrl: the key at the index, or nothing when it throws
getGeminiApiUrl(index) ==
  IF index + 1 \in DOMAIN GEMINI_API_KEYS
  THEN <<GEMINI_API_KEYS[index + 1]>>
  ELSE <<>>

\* the index moves on without wrapping round
switchToNextKey_unwrapped(index) ==
  IF Len(GEMINI_API_KEYS) > 1
  THEN [switched |-> TRUE, index |-> index + 1]
  ELSE [switched |-> FALSE, index |-> index]

\* switchToNextKey: what it returns and the index it leaves
switchToNextKey(index) ==
  IF Len(GEMINI_API_KEYS) > 1
  THEN [switched |-> TRUE, index |-> (index + 1) % Len(GEMINI_API_KEYS)]
  ELSE [switched |-> FALSE, index |-> index]

\* res.json / res.status(..).json: the handler ends with it
Respond(r, status) ==
  [r EXCEPT !.pc = "done", !.responses = @ + 1, !.status = status,
            !.response = None]

\* if (!response.ok) { ... }: where the block leaves the loop ("continue",
\* "throw"), the locals and the index; text is the body it has read
Tried(r, index, status, text) ==
  LET sw == switchToNextKey(index)
      more == [r EXCEPT !.attempts = @ + 1]
  IN
  IF chatbotRoutes = "part_002"
  THEN IF status \in RateCodes(r.route)
       THEN \* attempts++; if (attempts < maxAttempts && switchToNextKey()) continue
            IF more.attempts < maxAttempts
            THEN IF sw.switched
                 THEN [go |-> "continue", req |-> more, index |-> sw.index,
                       message |-> <<>>]
                 ELSE [go |-> "throw", req |-> more, index |-> sw.index,
                       message |-> AllExhausted(status)]
            ELSE [go |-> "throw", req |-> more, index |-> index,
                  message |-> AllExhausted(status)]
       ELSE [go |-> "throw", req |-> more, index |-> index,
             message |-> ApiError(r.route, status, text)]
  ELSE \* chatbot.js: if (switchToNextKey()) { attempts++; continue; }
       IF status \in RateCodes(r.route) /\ sw.switched
       THEN [go |-> "continue", req |-> more, index |-> sw.index, message |-> <<>>]
       ELSE [go |-> "throw", req |-> r, index |-> index,
             message |-> ApiError(r.route, status, text)]

\* the catch block: the loop goes on ("continue") or ends ("break")
Caught(r, index, message) ==
  LET sw == switchToNextKey(index)
      more == [r EXCEPT !.attempts = @ + 1]
      rate == RateMessage(r.route, message)
  IN
  IF chatbotRoutes = "part_002" /\ r.route = "detect-order-intent"
  THEN IF rate /\ r.attempts < maxAttempts - 1 /\ sw.switched
       THEN [go |-> "continue", req |-> more, index |-> sw.index]
       ELSE IF r.attempts >= maxAttempts - 1
       THEN [go |-> "break", req |-> r, index |-> index]
       ELSE [go |-> "continue", req |-> more, index |-> index]
  ELSE IF chatbotRoutes = "part_002"
  THEN \* detect-confirmation and chat count the attempt first
       IF rate /\ more.attempts < maxAttempts /\ sw.switched
       THEN [go |-> "continue", req |-> more, index |-> sw.index]
       ELSE IF more.attempts >= maxAttempts
       THEN [go |-> "break", req |-> more, index |-> index]
       ELSE [go |-> "continue", req |-> more, index |-> index]
  ELSE \* chatbot.js
       IF rate /\ sw.switched
       THEN [go |-> "continue", req |-> more, index |-> sw.index]
       ELSE [go |-> "break", req |-> r, index |-> index]

\* while (attempts < maxAttempts): up to the next fetch, or past the loop
\* to the response that follows it
RECURSIVE Loop(_, _)
Continue(c) ==
  IF c.go = "break"
  THEN [req |-> Respond(c.req, "200"), index |-> c.index]
  ELSE Loop(c.req, c.index)

Loop(r, index) ==
  IF r.attempts < maxAttempts
  THEN IF getGeminiApiUrl(index) # <<>>
       THEN [req |-> [r EXCEPT !.pc = "fetch", !.calls = @ + 1, !.response = None],
             index |-> index]
       ELSE Continue(Caught(r, index, NoKeyAvailable))
  ELSE [req |-> Respond(r, "200"), index |-> index]

\* the handler runs on from a point where it holds r, up to its next wait
Runs(q, run) ==
  /\ requests' = [requests EXCEPT ![q] = run.req]
  /\ currentKeyIndex' = run.index
  /\ UNCHANGED <<entry, chatbotRoutes, GEMINI_API_KEYS, store>>

\* a request arrives at a route without a wait before its loop: the checks
\* before the loop, then the loop up to the first fetch
Arrives(q, route, message, unavailable) ==
  /\ requests[q].pc = "idle"
  /\ LET r == [requests[q] EXCEPT !.route = route]
     IN
     IF ~message
     THEN Runs(q, [req |-> Respond(r, "400"), index |-> currentKeyIndex])
     ELSE IF unavailable
     THEN Runs(q, [req |-> Respond(r, "500"), index |-> currentKeyIndex])
     ELSE Runs(q, Loop(r, currentKeyIndex))

\* router.post('/detect-order-intent'): the message is checked, then the
\* handler waits for import('../models/Wishlist.js')
detect_order_intent(q, message) ==
  /\ requests[q].pc = "idle"
  /\ LET r == [requests[q] EXCEPT !.route = "detect-order-intent"]
     IN
     IF ~message
     THEN Runs(q, [req |-> Respond(r, "400"), index |-> currentKeyIndex])
     ELSE Runs(q, [req |-> [r EXCEPT !.pc = "import"], index |-> currentKeyIndex])

\* await import('../models/Wishlist.js'): the model is loaded and the handler
\* waits for Wishlist.find, or the outer catch answers 500
detect_order_intent_import(q, resolves) ==
  /\ requests[q].pc = "import"
  /\ IF resolves
     THEN Runs(q, [req |-> [requests[q] EXCEPT !.pc = "find"],
                   index |-> currentKeyIndex])
     ELSE Runs(q, [req |-> Respond(requests[q], "500"), index |-> currentKeyIndex])

\* await Wishlist.find({ user: userId }): the loop starts with the index as
\* it is now, or the outer catch answers 500
detect_order_intent_find(q, resolves) ==
  /\ requests[q].pc = "find"
  /\ IF resolves
     THEN Runs(q, Loop(requests[q], currentKeyIndex))
     ELSE Runs(q, [req |-> Respond(requests[q], "500"), index |-> currentKeyIndex])

\* router.post('/detect-confirmation'), of part_002 only
detect_confirmation(q, message) ==
  /\ chatbotRoutes = "part_002"
  /\ Arrives(q, "detect-confirmation", message, FALSE)

\* router.post('/chat'); part_002 answers 500 when no key is configured
post_chat(q, message) ==
  Arrives(q, "chat", message,
          chatbotRoutes = "part_002" /\ Len(GEMINI_API_KEYS) = 0)

\* await fetch(apiUrl, ..) of request q settles: a rejection goes to the
\* catch block, a 200 waits for response.json(), an error status waits for
\* response.text() where the route reads it and goes on at once elsewhere
fetch_settles(q, outcome) ==
  /\ requests[q].pc = "fetch"
  /\ LET r == requests[q]
         t == Tried(r, currentKeyIndex, outcome, <<>>)
     IN
     IF outcome \in {"network", "network 429"}
     THEN Runs(q, Continue(Caught(r, currentKeyIndex, Rejected(outcome))))
     ELSE IF outcome = "200"
     THEN Runs(q, [req |-> [r EXCEPT !.pc = "json", !.response = outcome],
                   index |-> currentKeyIndex])
     ELSE IF ReadsErrorText(r.route)
     THEN Runs(q, [req |-> [r EXCEPT !.pc = "text", !.response = outcome],
                   index |-> currentKeyIndex])
     ELSE IF t.go = "continue"
     THEN Runs(q, Loop(t.req, t.index))
     ELSE Runs(q, Continue(Caught(t.req, t.index, t.message)))

\* await response.text() settles: the block for an error status runs with
\* the index as it is now, or the rejection goes to the catch block
text_settles(q, body) ==
  /\ requests[q].pc = "text"
  /\ LET r == requests[q]
         t == Tried(r, currentKeyIndex, r.response, errorText(body))
     IN
     IF body = "unreadable"
     THEN Runs(q, Continue(Caught(r, currentKeyIndex, Rejected(body))))
     ELSE IF t.go = "continue"
     THEN Runs(q, Loop(t.req, t.index))
     ELSE Runs(q, Continue(Caught(t.req, t.index, t.message)))

\* await response.json() settles: the handler answers with what it read, or
\* the rejection (or the parsing that follows) goes to the catch block
json_settles(q, body) ==
  /\ requests[q].pc = "json"
  /\ LET r == requests[q]
     IN
     IF body = "ok"
     THEN Runs(q, [req |-> Respond(r, "200"), index |-> currentKeyIndex])
     ELSE Runs(q, Continue(Caught(r, currentKeyIndex, Rejected(body))))

InitChat ==
  /\ InitStore
  /\ chatbotRoutes \in {"part_002", "chatbot.js"}
  /\ \E n \in 0..MaxKeys : Configured(n)

NextChat ==
  \/ \E q \in Requests, message \in BOOLEAN : detect_order_intent(q, message)
  \/ \E q \in Requests, resolves \in BOOLEAN : detect_order_intent_import(q, resolves)
  \/ \E q \in Requests, resolves \in BOOLEAN : detect_order_intent_find(q, resolves)
  \/ \E q \in Requests, message \in BOOLEAN : detect_confirmation(q, message)
  \/ \E q \in Requests, message \in BOOLEAN : post_chat(q, message)
  \/ \E q \in Requests, outcome \in Upstream : fetch_settles(q, outcome)
  \/ \E q \in Requests, body \in TextBodies : text_settles(q, body)
  \/ \E q \in Requests, body \in JsonBodies : json_settles(q, body)

\* what a handler waits for settles in the end, one way or another
Settles(q) ==
  \/ \E resolves \in BOOLEAN : detect_order_intent_import(q, resolves)
  \/ \E resolves \in BOOLEAN : detect_order_intent_find(q, resolves)
  \/ \E outcome \in Upstream : fetch_settles(q, outcome)
  \/ \E body \in TextBodies : text_settles(q, body)
  \/ \E body \in JsonBodies : json_settles(q, body)

SpecChat ==
  /\ InitChat
  /\ [][NextChat]_vars
  /\ \A q \in Requests : WF_vars(Settles(q))


(***************************************************************************)
(* Properties of the chatbot router, under SpecChat                        *)
(***************************************************************************)
\* no request has made more upstream calls than maxAttempts
CallsBounded == \A q \in Requests : requests[q].calls <= maxAttempts

\* a request that has ended has sent one response, the others none
OneResponse ==
  \A q \in Requests :
    requests[q].responses = (IF requests[q].pc = "done" THEN 1 ELSE 0)

\* no request waits for ever: a request that has arrived never goes back
\* to "idle", so it is found ended again and again
Terminates ==
  \A q \in Requests : []<>(requests[q].pc \in {"idle", "done"})

IndexValid == currentKeyIndex + 1 \in DOMAIN GEMINI_API_KEYS

\* C39 as stated: for any number of configured keys, also none, the calls
\* of a request stay within maxAttempts, it sends exactly one response, and
\* currentKeyIndex is an index of the key list.
C39_AnyNumberOfKeys == CallsBounded /\ OneResponse /\ IndexValid

\* C39: every chatbot request ends, whatever the upstream API answers and
\* with other requests running: it makes at most maxAttempts upstream
\* calls and sends exactly one response; currentKeyIndex is an index of the
\* key list whenever a key is configured, and stays 0 when none is.
C39_ChatbotRequestEnds ==
  /\ [](CallsBounded /\ OneResponse)
  /\ [](IF Len(GEMINI_API_KEYS) > 0 THEN IndexValid ELSE currentKeyIndex = 0)
  /\ Terminates

\* a request used all its attempts and answered, the index having moved to
\* the second key, while another request was under way
C39_Witness ==
  /\ Len(GEMINI_API_KEYS) > 1
  /\ currentKeyIndex = 1
  /\ \E q \in Requests :
       /\ requests[q].pc = "done"
       /\ requests[q].status = "200"
       /\ requests[q].calls = maxAttempts
       /\ \E p \in Requests \ {q} : requests[p].pc = "fetch" /\ requests[p].calls > 1

=============================================================================
